---- MODULE Spec2Model ----
(***************************************************************************)
(* create-hdai-app-nextjs: the dependency / environment reconciliation     *)
(* engine.                                                                 *)
(*                                                                         *)
(*   - initializeCLI (cli.ts) with checkDependencies, installPnpm and      *)
(*     installLocalDependencies (utils.ts): specification SpecCLI.         *)
(*   - the .env.local reconciler: updateEnvFile (utils.ts), createEnvFiles *)
(*     and startRequiredServices (setup.ts), connectAuth and               *)
(*     connectDatabase (connect.ts), and the readers of the file           *)
(*     (isEnvValueConfigured, checkWhatNeedsSetup, verifySetup,            *)
(*     checkStatus): specification SpecEnv.                                *)
(*   - isEnvValueConfigured (setup.ts) on its own: SpecClassify.           *)
(*   - testDatabaseConnection and testSupabaseConnection (utils.ts):       *)
(*     specification SpecProbe.                                            *)
(*   - runFinalConnectivityCheck (setup.ts): specification SpecFinal.      *)
(*   - the verify command (cli.ts) with verifySetup: SpecVerify.           *)
(*   - setupProject (setup.ts) with checkPrerequisites and                 *)
(*     setupLocalSupabase: specification SpecSetup.                        *)
(*   - the environment probes (utils.ts), each on its own: SpecEnvProbe.   *)
(*   - getDatabase and closeDatabase (lib/db.ts): specification SpecDb.    *)
(*                                                                         *)
(* Text is modelled as a sequence of tokens.  A token is an atomic piece   *)
(* of text; "\n" is the line terminator.  Every pattern the code searches  *)
(* for is a sequence of whole tokens, so substring search on the text is   *)
(* subsequence search on the tokens.                                       *)
(***************************************************************************)
EXTENDS Integers, Sequences, FiniteSets, TLC

VARIABLES
    \* ---- the machine initializeCLI runs on
    nodeVersion,     \* process.version as dotted numbers, or Null
    pnpmVersion,     \* output of "pnpm --version", or Null when it fails
    isNpxTempDir,    \* projectRoot is an npx / temp directory
    hasPackageJson,  \* <projectRoot>/package.json exists
    hasNodeModules,  \* <projectRoot>/node_modules exists
    installedDeps,   \* the packages present under node_modules
    \* ---- initializeCLI
    pc,              \* position in initializeCLI
    checkResult,     \* the most recent DependencyCheckResult
    installActions,  \* the remediation closures, in order
    nextAction,      \* loop index i (1-based)
    exited,          \* process.exit was called
    exitCode,        \* its argument
    dispatched,      \* program.parse() ran a command
    log,             \* what the invocation did, in order
    \* ---- the project directory
    envFile,         \* .env.local
    prevFile,        \* .env.local before the last operation
    lastOp,          \* the last reconciliation operation, its inputs and results
    repeated,        \* the last operation repeats the one before it
    lastBackup,      \* the .env.local.backup.<timestamp> the last operation made
    nOps,            \* operations performed so far
    \* ---- one call of a probe, of the verify command or of
    \* ---- runFinalConnectivityCheck
    call,            \* the function called, its arguments and what its
                     \* environment will answer
    step,            \* position in the function
    effects,         \* what the call did to its environment, in order
    returned,        \* what the call returned, once it has
    \* ---- the process-wide database handle of the generated app (lib/db.ts)
    cachedClient,    \* the postgres client, or Null
    cachedDb,        \* the drizzle handle on it, or Null
    clients,         \* how many clients postgres() has made
    ended,           \* the clients whose end() has resolved
    closing          \* the clients closeDatabase calls are awaiting end() of

cliVars == <<pc, checkResult, installActions, nextAction, exited, exitCode,
             dispatched, log>>
machineVars == <<nodeVersion, pnpmVersion, isNpxTempDir, hasPackageJson,
                 hasNodeModules, installedDeps>>
envVars == <<envFile, prevFile, lastOp, repeated, lastBackup, nOps>>
callVars == <<call, step, effects, returned>>
dbVars == <<cachedClient, cachedDb, clients, ended, closing>>
vars == <<machineVars, cliVars, envVars, callVars, dbVars>>

\* null / undefined for a value that is otherwise a sequence
Null == <<>>

\* the module lib/db.ts as loaded: nothing cached
DbIdle ==
    /\ cachedClient = Null
    /\ cachedDb = Null
    /\ clients = 0
    /\ ended = {}
    /\ closing = <<>>

\* a file: whether it exists, and its text
NoFile == [exists |-> FALSE, content |-> <<>>]
File(text) == [exists |-> TRUE, content |-> text]

\* what a reader starts from: let content = ''; if (pathExists) content = readFile
ContentOrEmpty(file) == IF file.exists THEN file.content ELSE <<>>

(***************************************************************************)
(* Text                                                                    *)
(***************************************************************************)
NL == "\n"
SP == " "

Last(s) == s[Len(s)]

\* String.prototype.startsWith
StartsWith(s, p) ==
    /\ Len(p) <= Len(s)
    /\ SubSeq(s, 1, Len(p)) = p

\* String.prototype.endsWith
EndsWith(s, p) ==
    /\ Len(p) <= Len(s)
    /\ SubSeq(s, Len(s) - Len(p) + 1, Len(s)) = p

\* p occurs in s at position i
OccursAt(s, p, i) ==
    /\ i >= 1
    /\ i + Len(p) - 1 <= Len(s)
    /\ SubSeq(s, i, i + Len(p) - 1) = p

\* String.prototype.indexOf, 1-based; 0 when p does not occur
IndexOf(s, p) ==
    LET hits == {i \in 1..(Len(s) + 1) : OccursAt(s, p, i)}
    IN  IF hits = {} THEN 0 ELSE CHOOSE i \in hits : \A j \in hits : i <= j

\* String.prototype.includes
Includes(s, p) == IndexOf(s, p) # 0

IsSpace(t) == t = SP \/ t = NL

RECURSIVE TrimStart(_)
TrimStart(s) ==
    IF s # <<>> /\ IsSpace(Head(s)) THEN TrimStart(Tail(s)) ELSE s

RECURSIVE TrimEnd(_)
TrimEnd(s) ==
    IF s # <<>> /\ IsSpace(Last(s)) THEN TrimEnd(SubSeq(s, 1, Len(s) - 1)) ELSE s

\* String.prototype.trim
Trim(s) == TrimEnd(TrimStart(s))

\* the lines of a text: String.prototype.split('\n')
RECURSIVE SplitLines(_)
SplitLines(s) ==
    LET i == IndexOf(s, <<NL>>)
    IN  IF i = 0 THEN <<s>>
        ELSE <<SubSeq(s, 1, i - 1)>> \o SplitLines(SubSeq(s, i + 1, Len(s)))

\* Array.prototype.join('\n')
RECURSIVE JoinLines(_)
JoinLines(ls) ==
    IF Len(ls) = 1 THEN ls[1]
    ELSE ls[1] \o <<NL>> \o JoinLines(Tail(ls))

\* the text from position i up to the end of its line
RestOfLine(s, i) ==
    LET rest == SubSeq(s, i, Len(s))
        j    == IndexOf(rest, <<NL>>)
    IN  IF j = 0 THEN rest ELSE SubSeq(rest, 1, j - 1)

(***************************************************************************)
(* .env.local as text                                                      *)
(***************************************************************************)
KeyDb == "DATABASE_URL"
KeyUrl == "NEXT_PUBLIC_SUPABASE_URL"
KeyAnon == "NEXT_PUBLIC_SUPABASE_ANON_KEY"
KeySite == "NEXT_PUBLIC_SITE_URL"
RecognizedKeys == {KeyDb, KeyUrl, KeyAnon, KeySite}

\* the line ${key}=${value}
Assign(key, value) == <<key, "=">> \o value

\* the line matches ^KEY=.*$
IsActive(line, key) == StartsWith(line, <<key, "=">>)

Min(S) == CHOOSE i \in S : \A j \in S : i <= j

\* index of the first line matching ^KEY=.*$ under the m flag; 0 when none
FirstActive(lines, key) ==
    LET hits == {i \in 1..Len(lines) : IsActive(lines[i], key)}
    IN  IF hits = {} THEN 0 ELSE Min(hits)

\* the text before line i and the text after it
TextBefore(lines, i) ==
    IF i = 1 THEN <<>> ELSE JoinLines(SubSeq(lines, 1, i - 1)) \o <<NL>>
TextAfter(lines, i) ==
    IF i = Len(lines) THEN <<>>
    ELSE <<NL>> \o JoinLines(SubSeq(lines, i + 1, Len(lines)))

\* the replacement patterns of String.prototype.replace with a string
\* replacement: $$ is a dollar sign, $& the match, $< (dollar, grave accent)
\* the text before the match and $' the text after it
RECURSIVE ExpandReplacement(_, _, _, _)
ExpandReplacement(repl, before, matched, after) ==
    IF repl = <<>> THEN <<>>
    ELSE (CASE Head(repl) = "$$" -> <<"$">>
            [] Head(repl) = "$&" -> matched
            [] Head(repl) = "$<" -> before
            [] Head(repl) = "$'" -> after
            [] OTHER -> <<Head(repl)>>)
         \o ExpandReplacement(Tail(repl), before, matched, after)

\* content.replace(/^KEY=.*$/m, repl)
ReplaceFirstAssignment(content, key, repl) ==
    LET lines == SplitLines(content)
        i     == FirstActive(lines, key)
    IN  IF i = 0 THEN content
        ELSE TextBefore(lines, i)
             \o ExpandReplacement(repl, TextBefore(lines, i), lines[i],
                                  TextAfter(lines, i))
             \o TextAfter(lines, i)

\* content.replace(/^KEY=.*$/gm, '')
RemoveAllAssignments(content, key) ==
    LET lines == SplitLines(content)
    IN  JoinLines([i \in 1..Len(lines) |->
                      IF IsActive(lines[i], key) THEN <<>> ELSE lines[i]])

\* content.replace(/PAT.*?\n/g, ''): each occurrence of pat is removed with
\* the rest of its line and the line terminator
RECURSIVE RemoveToLineEnd(_, _)
RemoveToLineEnd(s, pat) ==
    LET i == IndexOf(s, pat)
    IN  IF i = 0 THEN s
        ELSE LET rest == SubSeq(s, i + Len(pat), Len(s))
                 j    == IndexOf(rest, <<NL>>)
             IN  IF j = 0 THEN s
                 ELSE SubSeq(s, 1, i - 1)
                      \o RemoveToLineEnd(SubSeq(rest, j + 1, Len(rest)), pat)

RECURSIVE LeadingNewlines(_)
LeadingNewlines(s) ==
    IF s # <<>> /\ Head(s) = NL THEN 1 + LeadingNewlines(Tail(s)) ELSE 0

\* content.replace(/\n{3,}/g, '\n\n')
RECURSIVE CollapseNewlines(_)
CollapseNewlines(s) ==
    IF s = <<>> THEN <<>>
    ELSE IF Head(s) = NL
    THEN LET n == LeadingNewlines(s)
         IN  (IF n >= 3 THEN <<NL, NL>> ELSE SubSeq(s, 1, n))
             \o CollapseNewlines(SubSeq(s, n + 1, Len(s)))
    ELSE <<Head(s)>> \o CollapseNewlines(Tail(s))

\* content.match(/^KEY=(.+)$/m): the value of the first active assignment
\* of key that has a non-empty value
MatchAssignment(content, key) ==
    LET lines == SplitLines(content)
        hits  == {i \in 1..Len(lines) : IsActive(lines[i], key) /\ Len(lines[i]) > 2}
    IN  IF hits = {} THEN [found |-> FALSE, value |-> <<>>]
        ELSE [found |-> TRUE,
              value |-> SubSeq(lines[Min(hits)], 3, Len(lines[Min(hits)]))]

\* content.match(/KEY=(.+)/): the rest of the line after the first KEY=
\* anywhere in the text that is followed by at least one character
MatchAnywhere(content, key) ==
    LET hits == {i \in 1..Len(content) :
                    /\ OccursAt(content, <<key, "=">>, i)
                    /\ i + 2 <= Len(content)
                    /\ content[i + 2] # NL}
    IN  IF hits = {} THEN [found |-> FALSE, value |-> <<>>]
        ELSE [found |-> TRUE, value |-> RestOfLine(content, Min(hits) + 2)]

(***************************************************************************)
(* updateEnvFile (utils.ts)                                                *)
(***************************************************************************)
\* one iteration of the loop over Object.entries(updates)
UpsertOne(content, key, value) ==
    IF FirstActive(SplitLines(content), key) # 0
    THEN ReplaceFirstAssignment(content, key, Assign(key, value))
    ELSE (IF content # <<>> /\ ~EndsWith(content, <<NL>>)
          THEN content \o <<NL>> ELSE content)
         \o Assign(key, value) \o <<NL>>

RECURSIVE UpsertAll(_, _)
UpsertAll(content, updates) ==
    IF updates = <<>> THEN content
    ELSE UpsertAll(UpsertOne(content, updates[1].key, updates[1].value),
                   Tail(updates))

\* every variable appended, none replaced
updateEnvFileAppendOnly(file, updates) ==
    File((IF file.exists THEN file.content ELSE <<>>)
         \o JoinLines([i \in 1..Len(updates) |->
                          Assign(updates[i].key, updates[i].value)])
         \o <<NL>>)

updateEnvFile(file, updates) ==
    File(UpsertAll(IF file.exists THEN file.content ELSE <<>>, updates))

(***************************************************************************)
(* Credential Fetcher: getSupabaseLocalCredentials (utils.ts)              *)
(***************************************************************************)
RECURSIVE LeadingSpaces(_)
LeadingSpaces(s) ==
    IF s # <<>> /\ IsSpace(Head(s)) THEN 1 + LeadingSpaces(Tail(s)) ELSE 0

\* where the group of /LABEL\s*(.+)/ starts for the occurrence of label at
\* p: after the longest run of white space that leaves a character other
\* than a line terminator to capture; 0 when there is none
GroupStart(output, label, p) ==
    LET from == p + Len(label)
        ws   == LeadingSpaces(SubSeq(output, from, Len(output)))
        ok   == {k \in 0..ws : from + k <= Len(output) /\ output[from + k] # NL}
    IN  IF ok = {} THEN 0
        ELSE from + (CHOOSE k \in ok : \A m \in ok : m <= k)

\* output.match(/LABEL\s*(.+)/)?.[1].trim()
MatchLabel(output, label) ==
    LET hits == {p \in 1..Len(output) :
                    OccursAt(output, label, p) /\ GroupStart(output, label, p) # 0}
    IN  IF hits = {} THEN [found |-> FALSE, value |-> <<>>]
        ELSE [found |-> TRUE,
              value |-> Trim(RestOfLine(output, GroupStart(output, label, Min(hits))))]

LabelApiUrl == <<"API URL:">>
LabelAnonKey == <<"anon key:">>
LabelDbUrl == <<"DB URL:">>

NoCredentials == [ok |-> FALSE, apiUrl |-> <<>>, anonKey |-> <<>>, dbUrl |-> <<>>]

\* the object returned when only the API URL and the anon key are required
getSupabaseLocalCredentialsWithoutDbUrl(status) ==
    IF status.fails THEN NoCredentials
    ELSE IF /\ MatchLabel(status.output, LabelApiUrl).found
            /\ MatchLabel(status.output, LabelAnonKey).found
    THEN [ok |-> TRUE,
          apiUrl |-> MatchLabel(status.output, LabelApiUrl).value,
          anonKey |-> MatchLabel(status.output, LabelAnonKey).value,
          dbUrl |-> MatchLabel(status.output, LabelDbUrl).value]
    ELSE NoCredentials

\* status is the result of execSync('npx supabase status'): it throws
\* (fails), or returns output
getSupabaseLocalCredentials(status) ==
    IF status.fails THEN NoCredentials
    ELSE IF /\ MatchLabel(status.output, LabelApiUrl).found
            /\ MatchLabel(status.output, LabelAnonKey).found
            /\ MatchLabel(status.output, LabelDbUrl).found
    THEN [ok |-> TRUE,
          apiUrl |-> MatchLabel(status.output, LabelApiUrl).value,
          anonKey |-> MatchLabel(status.output, LabelAnonKey).value,
          dbUrl |-> MatchLabel(status.output, LabelDbUrl).value]
    ELSE NoCredentials

\* isSupabaseRunning on the same command
isSupabaseRunning(status) ==
    /\ ~status.fails
    /\ Includes(status.output, LabelApiUrl)
    /\ Includes(status.output, <<"localhost">>)

\* the updates object createEnvFiles and startRequiredServices pass
CredentialUpdates(credentials) ==
    <<[key |-> KeyUrl, value |-> credentials.apiUrl],
      [key |-> KeyAnon, value |-> credentials.anonKey],
      [key |-> KeyDb, value |-> credentials.dbUrl]>>

(***************************************************************************)
(* createEnvFiles and startRequiredServices (setup.ts)                     *)
(***************************************************************************)
Comment(text) == <<"#", SP>> \o text

LocalDbComment == Comment(<<"Local Supabase", SP, "Database">>)
LocalAuthComment == Comment(<<"Local Supabase", SP, "Auth">>)
LocalSupabasePrefix == Comment(<<"Local Supabase">>)
ProdDbComment == Comment(<<"Production Database">>)
ProdAuthComment == Comment(<<"Production Supabase Auth">>)

LocalDbUrl == <<"postgresql://", "postgres:postgres@", "localhost", ":54322/postgres">>
LocalApiUrl == <<"http://", "localhost", ":54321">>
LocalSiteUrl == <<"http://", "localhost", ":3000">>
YourProductionDatabaseUrl == <<"your-", "production", "-database-url">>
YourSupabaseUrl == <<"your-", "supabase", "-url">>
YourSupabaseAnonKey == <<"your-", "supabase", "-anon-key">>
YourLocalAnonKey == <<"your-", "local", "-anon-key">>
TemplateDbUrl == <<"postgresql://", "user:password@host:port/database">>

\* a SetupConfig: db is useProductionDatabase ("" when unset), auth is
\* useProductionAuth
IsLocalConfig(config) == config.db = "" /\ ~config.auth

\* defaultContent (lines 382-403)
DefaultContent(config) ==
    Comment(<<"Environment Variables">>) \o <<NL, NL>>
    \o (IF config.db # ""
        THEN ProdDbComment \o <<NL>>
             \o Comment(Assign(KeyDb, YourProductionDatabaseUrl)) \o <<NL, NL>>
        ELSE LocalDbComment \o <<NL>>
             \o Assign(KeyDb, LocalDbUrl) \o <<NL, NL>>)
    \o (IF config.auth
        THEN ProdAuthComment \o <<NL>>
             \o Comment(Assign(KeyUrl, YourSupabaseUrl)) \o <<NL>>
             \o Comment(Assign(KeyAnon, YourSupabaseAnonKey)) \o <<NL, NL>>
        ELSE LocalAuthComment \o <<NL>>
             \o Assign(KeyUrl, LocalApiUrl) \o <<NL>>
             \o Assign(KeyAnon, YourLocalAnonKey) \o <<NL, NL>>)
    \o Comment(<<"Application URL">>) \o <<NL>>
    \o Assign(KeySite, LocalSiteUrl) \o <<NL>>

\* the comment line that depends on the provider (lines 439-445)
ProviderHint(dbType) ==
    IF dbType = "supabase"
    THEN Comment(<<"Get your connection string from: https://supabase.com/dashboard/project/_/settings/database">>)
    ELSE IF dbType = "neon"
    THEN Comment(<<"Get your connection string from: https://console.neon.tech/">>)
    ELSE Comment(<<"Use your PostgreSQL connection string">>)

\* the rewrite for config.useProductionDatabase (lines 434-448)
ProductionDatabaseRewrite(content, dbType) ==
    LET removed == ReplaceFirstAssignment(content, KeyDb, <<>>)
    IN  IF ~Includes(removed, <<KeyDb>>)
        THEN removed \o <<NL>> \o ProdDbComment \o <<NL>>
             \o ProviderHint(dbType) \o <<NL>>
             \o Comment(Assign(KeyDb, TemplateDbUrl)) \o <<NL>>
        ELSE removed

\* the rewrite for config.useProductionAuth (lines 470-479)
ProductionAuthRewrite(content) ==
    LET removed == ReplaceFirstAssignment(
                       ReplaceFirstAssignment(content, KeyUrl, <<>>), KeyAnon, <<>>)
    IN  IF ~Includes(removed, <<KeyUrl>>)
        THEN removed \o <<NL>> \o ProdAuthComment \o <<NL>>
             \o Comment(<<"Get your credentials from: https://supabase.com/dashboard/project/_/settings/api">>) \o <<NL>>
             \o Comment(Assign(KeyUrl, YourSupabaseUrl)) \o <<NL>>
             \o Comment(Assign(KeyAnon, YourSupabaseAnonKey)) \o <<NL>>
        ELSE removed

\* createEnvFiles: file is .env.local, example is .env.example, status the
\* result of "npx supabase status".  The result holds the new .env.local,
\* the credentials fetched, the updates passed to updateEnvFile and whether
\* a .env.local that existed before the call was written to.
createEnvFiles(file, example, config, status) ==
    LET copied  == IF example.exists /\ ~file.exists THEN example ELSE file
        created == IF ~copied.exists THEN File(DefaultContent(config)) ELSE copied
        creds   == IF IsLocalConfig(config) THEN getSupabaseLocalCredentials(status)
                   ELSE NoCredentials
        afterDb == IF config.db # ""
                   THEN File(ProductionDatabaseRewrite(created.content, config.db))
                   ELSE created
        afterAuth == IF config.auth
                     THEN File(ProductionAuthRewrite(afterDb.content))
                     ELSE afterDb
    IN  IF IsLocalConfig(config)
        THEN IF creds.ok
             THEN [file |-> updateEnvFile(created, CredentialUpdates(creds)),
                   creds |-> creds, updates |-> CredentialUpdates(creds),
                   rewrote |-> file.exists]
             ELSE [file |-> created, creds |-> creds, updates |-> <<>>,
                   rewrote |-> FALSE]
        ELSE [file |-> afterAuth, creds |-> creds, updates |-> <<>>,
              rewrote |-> file.exists]

\* startRequiredServices for the service 'Supabase (local)': running is
\* isSupabaseRunning before the start, startOk whether "npx supabase start"
\* returned, status the "npx supabase status" after it
startRequiredServices(file, running, startOk, status) ==
    LET creds == IF ~running /\ startOk THEN getSupabaseLocalCredentials(status)
                 ELSE NoCredentials
    IN  IF creds.ok
        THEN [file |-> updateEnvFile(file, CredentialUpdates(creds)),
              creds |-> creds, updates |-> CredentialUpdates(creds),
              rewrote |-> file.exists]
        ELSE [file |-> file, creds |-> creds, updates |-> <<>>, rewrote |-> FALSE]

(***************************************************************************)
(* connectAuth and connectDatabase (connect.ts)                            *)
(***************************************************************************)
EnsureTrailingNewline(content) ==
    IF ~EndsWith(content, <<NL>>) /\ Len(content) > 0
    THEN content \o <<NL>> ELSE content

\* the production pair appended without removing what is there
PromoteAuthAppendOnly(content, url, anonKey) ==
    EnsureTrailingNewline(content)
    \o ProdAuthComment \o <<NL>>
    \o Assign(KeyUrl, url) \o <<NL>>
    \o Assign(KeyAnon, anonKey) \o <<NL>>

\* lines 133-153
PromoteAuth(content, url, anonKey) ==
    EnsureTrailingNewline(
        CollapseNewlines(
            RemoveToLineEnd(
                RemoveToLineEnd(
                    RemoveAllAssignments(RemoveAllAssignments(content, KeyUrl), KeyAnon),
                    LocalAuthComment),
                ProdAuthComment)))
    \o ProdAuthComment \o <<NL>>
    \o Assign(KeyUrl, url) \o <<NL>>
    \o Assign(KeyAnon, anonKey) \o <<NL>>

\* lines 231-249
PromoteDatabase(content, databaseUrl) ==
    EnsureTrailingNewline(
        CollapseNewlines(
            RemoveToLineEnd(
                RemoveToLineEnd(RemoveAllAssignments(content, KeyDb),
                                LocalSupabasePrefix),
                ProdDbComment)))
    \o ProdDbComment \o <<NL>>
    \o Assign(KeyDb, databaseUrl) \o <<NL>>

\* the answer to 'Continue anyway?' is not looked at
ConnectProceedsAlways(isConnected, continue) == TRUE

\* the file is written unless the probe failed and the user declined
ConnectProceeds(isConnected, continue) == isConnected \/ continue

\* the backup made at the start of connectAuth / connectDatabase
ConnectBackup(file) == file

\* connectAuth: isConnected is the result of testSupabaseConnection,
\* continue the answer to 'Continue anyway?'
connectAuth(file, url, anonKey, isConnected, continue) ==
    IF ConnectProceeds(isConnected, continue)
    THEN [file |-> File(PromoteAuth(IF file.exists THEN file.content ELSE <<>>,
                                    url, anonKey)),
          backup |-> ConnectBackup(file), rewrote |-> file.exists]
    ELSE [file |-> file, backup |-> ConnectBackup(file), rewrote |-> FALSE]

connectDatabase(file, databaseUrl, isConnected, continue) ==
    IF ConnectProceeds(isConnected, continue)
    THEN [file |-> File(PromoteDatabase(IF file.exists THEN file.content ELSE <<>>,
                                        databaseUrl)),
          backup |-> ConnectBackup(file), rewrote |-> file.exists]
    ELSE [file |-> file, backup |-> ConnectBackup(file), rewrote |-> FALSE]

(***************************************************************************)
(* The readers of .env.local                                               *)
(***************************************************************************)
placeholderPatterns(type) ==
    IF type = "database"
    THEN {YourProductionDatabaseUrl, <<"your-", "production">>, YourLocalAnonKey}
    ELSE {YourSupabaseUrl, YourSupabaseAnonKey, <<"your-", "supabase">>,
          YourLocalAnonKey}

\* the placeholder test done with equality instead of includes
isEnvValueConfiguredExactMatch(value, type) ==
    IF value = <<>> THEN FALSE
    ELSE LET trimmed == Trim(value)
             commentIndex == IndexOf(trimmed, <<"#">>)
             valueWithoutComment ==
                 IF commentIndex # 0
                 THEN Trim(SubSeq(trimmed, 1, commentIndex - 1))
                 ELSE trimmed
         IN  IF StartsWith(trimmed, <<"#">>) THEN FALSE
             ELSE IF valueWithoutComment = <<>> THEN FALSE
             ELSE /\ \A pattern \in placeholderPatterns(type) :
                        valueWithoutComment # pattern
                  /\ Len(valueWithoutComment) > 0

\* setup.ts, lines 588-639
isEnvValueConfigured(value, type) ==
    IF value = <<>> THEN FALSE
    ELSE LET trimmed == Trim(value)
             commentIndex == IndexOf(trimmed, <<"#">>)
             valueWithoutComment ==
                 IF commentIndex # 0
                 THEN Trim(SubSeq(trimmed, 1, commentIndex - 1))
                 ELSE trimmed
         IN  IF StartsWith(trimmed, <<"#">>) THEN FALSE
             ELSE IF valueWithoutComment = <<>> THEN FALSE
             ELSE /\ \A pattern \in placeholderPatterns(type) :
                        ~Includes(valueWithoutComment, pattern)
                  /\ Len(valueWithoutComment) > 0

TypeOf(key) == IF key = KeyDb THEN "database" ELSE "auth"

\* hasDbUrl / hasAuthUrl / hasAuthKey in checkWhatNeedsSetup (684-701) and
\* displayConnectivityResults (843-865)
SetupHasValue(content, key) ==
    /\ MatchAssignment(content, key).found
    /\ isEnvValueConfigured(MatchAssignment(content, key).value, TypeOf(key))

\* the local-mode test of checkWhatNeedsSetup (line 671): the anon key is
\* taken to be fetched already
SetupLocalAnonKeyFetched(content) ==
    ~(Includes(content, YourLocalAnonKey) \/ ~Includes(content, <<KeyAnon, "=">>))

\* verifySetup (verify.ts, lines 261-266, 311, 322): the variable counts
\* as configured
VerifyHasValue(content, key) ==
    /\ MatchAnywhere(content, key).found
    /\ ~Includes(MatchAnywhere(content, key).value, <<"your-">>)
    /\ ~Includes(MatchAnywhere(content, key).value, <<"placeholder">>)

\* checkStatus (status.ts, lines 608-609, 646-649): the variable is
\* reported as a production service
StatusShowsProduction(content, key) ==
    /\ MatchAnywhere(content, key).found
    /\ ~Includes(MatchAnywhere(content, key).value, <<"localhost">>)
    /\ ~Includes(MatchAnywhere(content, key).value, <<"127.0.0.1">>)

(***************************************************************************)
(* Environment Probe and installers (utils.ts)                             *)
(***************************************************************************)
requiredDeps == {"commander", "chalk", "ora", "inquirer", "fs-extra", "get-port"}

minNodeVersion == <<20, 0, 0>>
minPnpmVersion == <<8, 0, 0>>

Component(v, i) == IF i <= Len(v) THEN v[i] ELSE 0

RECURSIVE compareFrom(_, _, _)
compareFrom(v1, v2, i) ==
    IF i > Len(v1) /\ i > Len(v2) THEN TRUE
    ELSE IF Component(v1, i) > Component(v2, i) THEN TRUE
    ELSE IF Component(v1, i) < Component(v2, i) THEN FALSE
    ELSE compareFrom(v1, v2, i + 1)

compareVersions(version, minVersion) == compareFrom(version, minVersion, 1)

\* checkNodeVersion without the comparison against the minimum
checkNodeVersionAnyVersion ==
    [success |-> nodeVersion # Null, version |-> nodeVersion]

checkNodeVersion ==
    IF nodeVersion = Null
    THEN [success |-> FALSE, version |-> Null]
    ELSE [success |-> compareVersions(nodeVersion, minNodeVersion),
          version |-> nodeVersion]

checkPnpmOf(v) ==
    IF v = Null
    THEN [installed |-> FALSE, version |-> Null, meetsRequirement |-> FALSE]
    ELSE [installed |-> TRUE, version |-> v,
          meetsRequirement |-> compareVersions(v, minPnpmVersion)]

checkPnpm == checkPnpmOf(pnpmVersion)

checkLocalDependencies ==
    IF isNpxTempDir THEN [installed |-> TRUE, missing |-> {}]
    ELSE IF hasPackageJson
    THEN IF ~hasNodeModules
         THEN [installed |-> FALSE, missing |-> requiredDeps]
         ELSE [installed |-> (requiredDeps \ installedDeps) = {},
               missing |-> requiredDeps \ installedDeps]
    ELSE [installed |-> TRUE, missing |-> {}]

\* the errors list, as the set of failed checks
DependencyErrors ==
    (IF ~checkNodeVersion.success THEN {"node"} ELSE {})
    \cup (IF ~checkPnpm.installed THEN {"pnpm-missing"}
          ELSE IF ~checkPnpm.meetsRequirement THEN {"pnpm-version"} ELSE {})
    \cup (IF ~checkLocalDependencies.installed THEN {"local-deps"} ELSE {})

checkDependencies ==
    [success |-> DependencyErrors = {},
     errors |-> DependencyErrors,
     pnpmNeedsInstall |-> ~checkPnpm.installed,
     pnpmNeedsUpgrade |-> checkPnpm.installed /\ ~checkPnpm.meetsRequirement,
     localDepsNeedsInstall |-> ~checkLocalDependencies.installed,
     localDepsMissing |-> checkLocalDependencies.missing]

\* what "npm install -g pnpm" can end with
NpmOutcomes == {"ok", "EACCES", "error"}

installPnpm(outcome) ==
    IF outcome = "ok" THEN [success |-> TRUE, needsSudo |-> FALSE]
    ELSE IF outcome = "EACCES" THEN [success |-> FALSE, needsSudo |-> TRUE]
    ELSE [success |-> FALSE, needsSudo |-> FALSE]

\* what "<pm> install" can end with
InstallOutcomes == {"ok", "error"}

installLocalDependencies(outcome) ==
    IF ~hasPackageJson THEN FALSE
    ELSE outcome = "ok"

(***************************************************************************)
(* initializeCLI (cli.ts)                                                  *)
(***************************************************************************)
\* installActions with the local dependencies pushed first
BuildInstallActionsLocalFirst(cr) ==
    (IF cr.localDepsNeedsInstall THEN <<"installLocalDependencies">> ELSE <<>>)
    \o (IF cr.pnpmNeedsInstall THEN <<"installPnpm">>
        ELSE IF cr.pnpmNeedsUpgrade THEN <<"upgradePnpm">>
        ELSE <<>>)

\* installActions, in the order the closures are pushed
BuildInstallActions(cr) ==
    (IF cr.pnpmNeedsInstall THEN <<"installPnpm">>
     ELSE IF cr.pnpmNeedsUpgrade THEN <<"upgradePnpm">>
     ELSE <<>>)
    \o (IF cr.localDepsNeedsInstall THEN <<"installLocalDependencies">> ELSE <<>>)

\* where the first probe leads
AfterProbe(cr) ==
    IF cr.success THEN "Satisfied"
    ELSE IF BuildInstallActions(cr) # <<>> THEN "AwaitingUserConsent"
    ELSE "Blocked"

\* the answer to the prompt ignored
AfterConsentIgnored(shouldInstall) == "Installing"

\* where the answer to the confirmation prompt leads
AfterConsent(shouldInstall) ==
    IF shouldInstall THEN "Installing" ELSE "Blocked"

\* whether the loop goes on after installActions[i] returned result
\* (result is the boolean of installLocalDependencies, or .success of installPnpm)
ContinueAfterInstall(success) == success

\* the re-check result ignored
AfterReprobeUnchecked(cr) == "Satisfied"

\* where the re-check after the installation pass leads
AfterReprobe(cr) ==
    IF cr.success THEN "Satisfied" ELSE "Blocked"

\* process.exit(1) on every Blocked outcome
Goto(target) ==
    /\ pc' = target
    /\ exited' = (target = "Blocked")
    /\ exitCode' = IF target = "Blocked" THEN 1 ELSE 0

LatestPnpm == <<10, 0, 0>>

\* let checkResult = await checkDependencies(); ... (lines 15-66, 142-150)
CheckDeps ==
    /\ pc = "Probing"
    /\ checkResult' = checkDependencies
    /\ installActions' = IF checkDependencies.success THEN <<>>
                         ELSE BuildInstallActions(checkDependencies)
    /\ nextAction' = 1
    /\ log' = log \o <<[act |-> "checkDependencies",
                        result |-> IF checkDependencies.success THEN "ok" ELSE "failed"]>>
              \o (IF AfterProbe(checkDependencies) = "AwaitingUserConsent"
                  THEN <<[act |-> "prompt", result |-> "shown"]>> ELSE <<>>)
    /\ Goto(AfterProbe(checkDependencies))
    /\ UNCHANGED <<dbVars, machineVars, dispatched, envVars, callVars>>

\* the user's answer to 'Would you like to install these dependencies now?'
AnswerPrompt ==
    /\ pc = "AwaitingUserConsent"
    /\ \E shouldInstall \in BOOLEAN :
          /\ log' = Append(log, [act |-> "answer",
                                 result |-> IF shouldInstall THEN "yes" ELSE "no"])
          /\ Goto(AfterConsent(shouldInstall))
    /\ UNCHANGED <<dbVars, machineVars, checkResult, installActions, nextAction,
                   dispatched, envVars, callVars>>

\* one iteration of the loop over installActions running installPnpm
RunInstallPnpm ==
    /\ pc = "Installing"
    /\ nextAction <= Len(installActions)
    /\ installActions[nextAction] \in {"installPnpm", "upgradePnpm"}
    /\ \E outcome \in NpmOutcomes :
          LET result == installPnpm(outcome)
          IN  /\ log' = Append(log, [act |-> installActions[nextAction],
                                     result |-> IF result.success THEN "ok"
                                                ELSE IF result.needsSudo THEN "needsSudo"
                                                ELSE "failed"])
              /\ \E v \in (IF result.success THEN {pnpmVersion, LatestPnpm}
                           ELSE {pnpmVersion}) : pnpmVersion' = v
              /\ IF ContinueAfterInstall(result.success)
                 THEN /\ nextAction' = nextAction + 1
                      /\ Goto(IF nextAction = Len(installActions)
                              THEN "Reprobing" ELSE "Installing")
                 ELSE /\ nextAction' = nextAction
                      /\ Goto("Blocked")
    /\ UNCHANGED <<dbVars, nodeVersion, isNpxTempDir, hasPackageJson, hasNodeModules,
                   installedDeps, checkResult, installActions, dispatched,
                   envVars, callVars>>

\* one iteration of the loop running installLocalDependencies
RunInstallLocal ==
    /\ pc = "Installing"
    /\ nextAction <= Len(installActions)
    /\ installActions[nextAction] = "installLocalDependencies"
    /\ \E outcome \in InstallOutcomes :
          LET result == installLocalDependencies(outcome)
          IN  /\ log' = Append(log, [act |-> "installLocalDependencies",
                                     result |-> IF result THEN "ok" ELSE "failed"])
              /\ hasNodeModules' = (hasNodeModules \/ result)
              /\ \E d \in (IF result THEN {installedDeps, requiredDeps}
                           ELSE {installedDeps}) : installedDeps' = d
              /\ IF ContinueAfterInstall(result)
                 THEN /\ nextAction' = nextAction + 1
                      /\ Goto(IF nextAction = Len(installActions)
                              THEN "Reprobing" ELSE "Installing")
                 ELSE /\ nextAction' = nextAction
                      /\ Goto("Blocked")
    /\ UNCHANGED <<dbVars, nodeVersion, pnpmVersion, isNpxTempDir, hasPackageJson,
                   checkResult, installActions, dispatched, envVars, callVars>>

\* checkResult = await checkDependencies() after the installation pass (121-130)
Reprobe ==
    /\ pc = "Reprobing"
    /\ checkResult' = checkDependencies
    /\ log' = Append(log, [act |-> "recheckDependencies",
                           result |-> IF checkDependencies.success THEN "ok" ELSE "failed"])
    /\ Goto(AfterReprobe(checkDependencies))
    /\ UNCHANGED <<dbVars, machineVars, installActions, nextAction, dispatched,
                   envVars, callVars>>

\* initializeCLI returned: program.parse() dispatches the command
Dispatch ==
    /\ pc = "Satisfied"
    /\ ~exited
    /\ ~dispatched
    /\ dispatched' = TRUE
    /\ UNCHANGED <<dbVars, machineVars, pc, checkResult, installActions, nextAction,
                   exited, exitCode, log, envVars, callVars>>

NodeVersions == {Null, <<18, 19, 0>>, <<20, 0, 0>>, <<22, 1>>}
PnpmVersions == {Null, <<7, 9, 9>>, <<8, 0>>, <<10, 0, 0>>}
DepStates == {requiredDeps, requiredDeps \ {"chalk"}, {}}

NoCheck == [success |-> FALSE, errors |-> {}, pnpmNeedsInstall |-> FALSE,
            pnpmNeedsUpgrade |-> FALSE, localDepsNeedsInstall |-> FALSE,
            localDepsMissing |-> {}]

NoStatus == [fails |-> TRUE, output |-> <<>>]

\* an operation's inputs
NoInput ==
    [name |-> "none", updates |-> <<>>, config |-> [db |-> "", auth |-> FALSE],
     example |-> NoFile, status |-> NoStatus, running |-> FALSE,
     startOk |-> FALSE, url |-> <<>>, anonKey |-> <<>>, isConnected |-> FALSE,
     continue |-> FALSE]

NoOp == [inp |-> NoInput, creds |-> NoCredentials, updates |-> <<>>,
         rewrote |-> FALSE]

EnvIdle ==
    /\ envFile = NoFile
    /\ prevFile = NoFile
    /\ lastOp = NoOp
    /\ repeated = FALSE
    /\ lastBackup = NoFile
    /\ nOps = 0

\* no probe, verify command or connectivity check has been called
NoCall == [name |-> "none"]

CallIdle ==
    /\ call = NoCall
    /\ step = "idle"
    /\ effects = <<>>
    /\ returned = <<>>

InitCLI ==
    /\ nodeVersion \in NodeVersions
    /\ pnpmVersion \in PnpmVersions
    /\ isNpxTempDir \in BOOLEAN
    /\ hasPackageJson \in BOOLEAN
    /\ hasNodeModules \in BOOLEAN
    /\ installedDeps \in DepStates
    /\ (~hasNodeModules => installedDeps = {})
    /\ pc = "Probing"
    /\ checkResult = NoCheck
    /\ installActions = <<>>
    /\ nextAction = 1
    /\ exited = FALSE
    /\ exitCode = 0
    /\ dispatched = FALSE
    /\ log = <<>>
    /\ DbIdle
    /\ EnvIdle
    /\ CallIdle

NextCLI ==
    \/ CheckDeps
    \/ AnswerPrompt
    \/ RunInstallPnpm
    \/ RunInstallLocal
    \/ Reprobe
    \/ Dispatch

SpecCLI == InitCLI /\ [][NextCLI]_vars

(***************************************************************************)
(* The reconciliation operations on a project directory                    *)
(***************************************************************************)
MaxOps == 2

\* lines a .env.local can hold before the tool touches it
NoteLine == Comment(<<"note">>)
OtherLine == <<"OTHER", "=", "1">>
DbLine == Assign(KeyDb, <<"postgresql://", "prod-host/db">>)
CommentedDbLine == Comment(Assign(KeyDb, YourProductionDatabaseUrl))
AnonKeyLine == Assign(KeyAnon, YourLocalAnonKey)

\* the text of the lines, each terminated, the last one optionally
Render(ls, terminated) ==
    IF ls = <<>> THEN <<>>
    ELSE JoinLines(ls) \o (IF terminated THEN <<NL>> ELSE <<>>)

\* the .env.local before the tool touches it: absent, empty, or written by
\* hand
InitFiles ==
    {NoFile, File(<<>>)}
    \cup {File(Render(ls, TRUE)) :
             ls \in {<<DbLine>>, <<AnonKeyLine>>, <<CommentedDbLine>>,
                     <<DbLine, DbLine>>, <<DbLine, OtherLine>>,
                     <<NoteLine, <<>>, DbLine>>,
                     <<CommentedDbLine, AnonKeyLine>>}}
    \cup {File(Render(ls, FALSE)) :
             ls \in {<<NoteLine, OtherLine>>, <<OtherLine, DbLine>>}}

\* the .env.example of the template
ExampleFiles ==
    {NoFile,
     File(Assign(KeyDb, LocalDbUrl) \o <<NL>>
          \o Assign(KeyUrl, YourSupabaseUrl) \o <<NL>>
          \o Assign(KeyAnon, YourSupabaseAnonKey) \o <<NL>>)}

Configs == [db : {"", "supabase", "neon", "custom"}, auth : BOOLEAN]

StatusLine(label, value) == label \o <<SP>> \o value \o <<NL>>

\* results of "npx supabase status"
Statuses ==
    {NoStatus,
     [fails |-> FALSE,
      output |-> StatusLine(LabelApiUrl, LocalApiUrl)
                 \o StatusLine(LabelDbUrl, LocalDbUrl)
                 \o StatusLine(LabelAnonKey, <<"eyJ-local-anon-key">>)],
     [fails |-> FALSE,
      output |-> StatusLine(LabelApiUrl, LocalApiUrl)
                 \o StatusLine(LabelAnonKey, <<"eyJ-local-anon-key">>)],
     [fails |-> FALSE,
      output |-> StatusLine(LabelDbUrl, LocalDbUrl)
                 \o StatusLine(LabelApiUrl, LocalApiUrl)
                 \o LabelAnonKey \o <<NL>>]}

UpdateKeys == {KeyDb, KeyAnon}
UpdateValues ==
    {<<"postgresql://", "prod-host/db">>,
     <<"postgresql://", "u:p", "$$", "@h/db">>,
     <<"postgresql://", "u:p", "$'", "@h/db">>}

ProdApiUrl == <<"https://", "prod.supabase.co">>
ProdAnonKey == <<"eyJ-production-anon-key">>
ProdDbUrl == <<"postgresql://", "prod-host/db">>

\* the operation is recorded
Record(inp, result, backup) ==
    /\ nOps < MaxOps
    /\ nOps' = nOps + 1
    /\ prevFile' = envFile
    /\ envFile' = result.file
    /\ lastOp' = [inp |-> inp, creds |-> result.creds,
                  updates |-> result.updates, rewrote |-> result.rewrote]
    /\ repeated' = (lastOp.inp = inp)
    /\ lastBackup' = backup

DoUpdateEnvFile ==
    /\ \E key \in UpdateKeys, value \in UpdateValues :
          LET updates == <<[key |-> key, value |-> value]>>
          IN  Record([NoInput EXCEPT !.name = "updateEnvFile", !.updates = updates],
                     [file |-> updateEnvFile(envFile, updates),
                      creds |-> NoCredentials, updates |-> updates,
                      rewrote |-> envFile.exists],
                     NoFile)
    /\ UNCHANGED <<dbVars, machineVars, cliVars, callVars>>

\* .env.example is copied only when there is no .env.local
DoCreateEnvFiles ==
    /\ \E config \in Configs,
          example \in (IF envFile.exists THEN {NoFile} ELSE ExampleFiles) :
          \E status \in (IF IsLocalConfig(config) THEN Statuses ELSE {NoStatus}) :
             Record([NoInput EXCEPT !.name = "createEnvFiles", !.config = config,
                                    !.example = example, !.status = status],
                    createEnvFiles(envFile, example, config, status),
                    NoFile)
    /\ UNCHANGED <<dbVars, machineVars, cliVars, callVars>>

DoStartRequiredServices ==
    /\ \E running \in BOOLEAN, startOk \in BOOLEAN :
          \E status \in (IF ~running /\ startOk THEN Statuses ELSE {NoStatus}) :
             Record([NoInput EXCEPT !.name = "startRequiredServices",
                                    !.running = running, !.startOk = startOk,
                                    !.status = status],
                    startRequiredServices(envFile, running, startOk, status),
                    NoFile)
    /\ UNCHANGED <<dbVars, machineVars, cliVars, callVars>>

DoConnectAuth ==
    /\ \E isConnected \in BOOLEAN :
          \E continue \in (IF isConnected THEN {FALSE} ELSE BOOLEAN) :
             LET r == connectAuth(envFile, ProdApiUrl, ProdAnonKey, isConnected, continue)
             IN  Record([NoInput EXCEPT !.name = "connectAuth", !.url = ProdApiUrl,
                                        !.anonKey = ProdAnonKey,
                                        !.isConnected = isConnected,
                                        !.continue = continue],
                        [file |-> r.file, creds |-> NoCredentials, updates |-> <<>>,
                         rewrote |-> r.rewrote],
                        r.backup)
    /\ UNCHANGED <<dbVars, machineVars, cliVars, callVars>>

DoConnectDatabase ==
    /\ \E isConnected \in BOOLEAN :
          \E continue \in (IF isConnected THEN {FALSE} ELSE BOOLEAN) :
             LET r == connectDatabase(envFile, ProdDbUrl, isConnected, continue)
             IN  Record([NoInput EXCEPT !.name = "connectDatabase", !.url = ProdDbUrl,
                                        !.isConnected = isConnected,
                                        !.continue = continue],
                        [file |-> r.file, creds |-> NoCredentials, updates |-> <<>>,
                         rewrote |-> r.rewrote],
                        r.backup)
    /\ UNCHANGED <<dbVars, machineVars, cliVars, callVars>>

\* no CLI invocation in progress
CliIdle ==
    /\ nodeVersion = <<20, 0, 0>>
    /\ pnpmVersion = <<10, 0, 0>>
    /\ isNpxTempDir = FALSE
    /\ hasPackageJson = TRUE
    /\ hasNodeModules = TRUE
    /\ installedDeps = requiredDeps
    /\ pc = "Satisfied"
    /\ checkResult = NoCheck
    /\ installActions = <<>>
    /\ nextAction = 1
    /\ exited = FALSE
    /\ exitCode = 0
    /\ dispatched = TRUE
    /\ log = <<>>
    /\ DbIdle

InitEnv ==
    /\ CliIdle
    /\ envFile \in InitFiles
    /\ prevFile = NoFile
    /\ lastOp = NoOp
    /\ repeated = FALSE
    /\ lastBackup = NoFile
    /\ nOps = 0
    /\ CallIdle

NextEnv ==
    \/ DoUpdateEnvFile
    \/ DoCreateEnvFiles
    \/ DoStartRequiredServices
    \/ DoConnectAuth
    \/ DoConnectDatabase

SpecEnv == InitEnv /\ [][NextEnv]_vars

(***************************************************************************)
(* isEnvValueConfigured on its own                                         *)
(***************************************************************************)
MaxValueLen == 3

\* pieces of the values found after KEY= in a .env.local
ValueTokens ==
    {SP, "#", "your-", "production", "-database-url", "supabase", "-url",
     "-anon-key", "local", "postgresql://", "u:p@h:5432/d"}

RECURSIVE TokenSeqs(_)
TokenSeqs(n) ==
    IF n = 0 THEN {<<>>}
    ELSE TokenSeqs(n - 1)
         \cup {Append(v, t) : v \in {x \in TokenSeqs(n - 1) : Len(x) = n - 1},
                              t \in ValueTokens}

InlineCommentValue == <<"postgresql://", "u:p@h/d", SP, "#", "todo">>

ClassifyValues == TokenSeqs(MaxValueLen) \cup {InlineCommentValue}

InitClassify ==
    /\ CliIdle
    /\ EnvIdle
    /\ call \in [name : {"isEnvValueConfigured"}, value : ClassifyValues,
                 type : {"database", "auth"}]
    /\ step = "called"
    /\ effects = <<>>
    /\ returned = <<>>

Classify ==
    /\ call.name = "isEnvValueConfigured"
    /\ step = "called"
    /\ returned' = <<isEnvValueConfigured(call.value, call.type)>>
    /\ step' = "done"
    /\ UNCHANGED <<dbVars, machineVars, cliVars, envVars, call, effects>>

NextClassify == Classify

SpecClassify == InitClassify /\ [][NextClassify]_vars

(***************************************************************************)
(* Connectivity Prober: testDatabaseConnection, testSupabaseConnection     *)
(* (utils.ts)                                                              *)
(***************************************************************************)
\* what a call gives back: a value, or an exception that escapes it
Returns(value) == [threw |-> FALSE, value |-> value]
Throws == [threw |-> TRUE, value |-> FALSE]

Outcome(value, done) == [returned |-> value, effects |-> done]

\* dbUrl.startsWith('postgresql://') || dbUrl.startsWith('postgres://')
isValidFormat(dbUrl) ==
    StartsWith(dbUrl, <<"postgresql://">>) \/ StartsWith(dbUrl, <<"postgres://">>)

\* the format check left out
testDatabaseConnectionNoFormatCheck(dbUrl, driver, server) ==
    IF driver = "missing"
    THEN Outcome(Returns(TRUE), <<"import">>)
    ELSE IF server = "refuses"
    THEN Outcome(Returns(TRUE), <<"import", "connect">>)
    ELSE IF server = "queryFails"
    THEN Outcome(Returns(TRUE), <<"import", "connect", "query">>)
    ELSE Outcome(Returns(TRUE), <<"import", "connect", "query", "end">>)

\* driver: whether import('postgres') resolves in this context; server:
\* what the database does with the trial connection and with SELECT 1.
\* Every exception after the format check lands in the inner catch.
testDatabaseConnection(dbUrl, driver, server) ==
    IF ~isValidFormat(dbUrl)
    THEN Outcome(Returns(FALSE), <<>>)
    ELSE IF driver = "missing"
    THEN Outcome(Returns(TRUE), <<"import">>)
    ELSE IF server = "refuses"
    THEN Outcome(Returns(TRUE), <<"import", "connect">>)
    ELSE IF server = "queryFails"
    THEN Outcome(Returns(TRUE), <<"import", "connect", "query">>)
    ELSE Outcome(Returns(TRUE), <<"import", "connect", "query", "end">>)

\* response.ok
ResponseOk(status) == status \in 200..299

\* the request fetch is called with
RestRequest(url) == <<"GET">> \o url \o <<"/rest/v1/">>

\* an error of the HTTP layer is not caught
testSupabaseConnectionUncaught(url, anonKey, http) ==
    IF http.throws
    THEN Outcome(Throws, <<RestRequest(url)>>)
    ELSE Outcome(Returns(ResponseOk(http.status)), <<RestRequest(url)>>)

\* http: what fetch does, throw or resolve to a response with a status
testSupabaseConnection(url, anonKey, http) ==
    IF http.throws
    THEN Outcome(Returns(FALSE), <<RestRequest(url)>>)
    ELSE Outcome(Returns(ResponseOk(http.status)), <<RestRequest(url)>>)

DbUrls ==
    {<<"postgresql://", "prod-host/db">>,
     <<"postgres://", "prod-host/db">>,
     <<"postgresql://", "postgres:postgres@", "localhost", ":54322/postgres">>,
     <<"mysql://", "prod-host/db">>,
     <<"http://", "localhost", ":54321">>,
     <<"prod-host/db">>,
     <<SP, "postgresql://", "prod-host/db">>,
     <<>>}
Drivers == {"missing", "present"}
Servers == {"accepts", "refuses", "queryFails"}

ApiUrls == {<<"https://", "prod.supabase.co">>, <<"http://", "localhost", ":54321">>}
AnonKeys == {<<"eyJ-production-anon-key">>, <<"eyJ-local-anon-key">>}
HttpResults ==
    {[throws |-> TRUE, status |-> 0]}
    \cup {[throws |-> FALSE, status |-> n] : n \in {200, 204, 401, 404, 500}}

InitProbe ==
    /\ CliIdle
    /\ EnvIdle
    /\ call \in [name : {"testDatabaseConnection"}, dbUrl : DbUrls,
                 driver : Drivers, server : Servers]
            \cup [name : {"testSupabaseConnection"}, url : ApiUrls,
                  anonKey : AnonKeys, http : HttpResults]
    /\ step = "called"
    /\ effects = <<>>
    /\ returned = <<>>

Finish(outcome) ==
    /\ step = "called"
    /\ returned' = <<outcome.returned>>
    /\ effects' = outcome.effects
    /\ step' = "done"
    /\ UNCHANGED <<dbVars, machineVars, cliVars, envVars, call>>

ProbeDatabase ==
    /\ call.name = "testDatabaseConnection"
    /\ Finish(testDatabaseConnection(call.dbUrl, call.driver, call.server))

ProbeSupabase ==
    /\ call.name = "testSupabaseConnection"
    /\ Finish(testSupabaseConnection(call.url, call.anonKey, call.http))

NextProbe == ProbeDatabase \/ ProbeSupabase

SpecProbe == InitProbe /\ [][NextProbe]_vars

(***************************************************************************)
(* runFinalConnectivityCheck (setup.ts)                                    *)
(***************************************************************************)
NoRequirements ==
    [servicesToStart |-> <<>>, configNeeded |-> <<>>, missingPrerequisites |-> <<>>]

\* Supabase offered for starting whenever it is not running
checkWhatNeedsSetupWithoutDockerCheck(content, config, supabaseRunning, dockerRunning) ==
    [servicesToStart |->
        IF IsLocalConfig(config) /\ ~supabaseRunning
        THEN <<"Supabase (local)">> ELSE <<>>,
     missingPrerequisites |->
        IF IsLocalConfig(config) /\ ~supabaseRunning /\ ~dockerRunning
        THEN <<"Docker Desktop">> ELSE <<>>,
     configNeeded |->
        (IF /\ IsLocalConfig(config)
            /\ ~SetupLocalAnonKeyFetched(content)
            /\ ~supabaseRunning
         THEN <<"auth">> ELSE <<>>)
        \o (IF config.db # "" /\ ~SetupHasValue(content, KeyDb)
            THEN <<"database">> ELSE <<>>)
        \o (IF /\ config.auth
               /\ ~(SetupHasValue(content, KeyUrl) /\ SetupHasValue(content, KeyAnon))
            THEN <<"auth">> ELSE <<>>)]

\* checkWhatNeedsSetup: content is the text of .env.local ('' when there is
\* none), supabaseRunning and dockerRunning the answers of isSupabaseRunning
\* and isDockerRunning
checkWhatNeedsSetup(content, config, supabaseRunning, dockerRunning) ==
    [servicesToStart |->
        IF IsLocalConfig(config) /\ ~supabaseRunning /\ dockerRunning
        THEN <<"Supabase (local)">> ELSE <<>>,
     missingPrerequisites |->
        IF IsLocalConfig(config) /\ ~supabaseRunning /\ ~dockerRunning
        THEN <<"Docker Desktop">> ELSE <<>>,
     configNeeded |->
        (IF /\ IsLocalConfig(config)
            /\ ~SetupLocalAnonKeyFetched(content)
            /\ ~supabaseRunning
         THEN <<"auth">> ELSE <<>>)
        \o (IF config.db # "" /\ ~SetupHasValue(content, KeyDb)
            THEN <<"database">> ELSE <<>>)
        \o (IF /\ config.auth
               /\ ~(SetupHasValue(content, KeyUrl) /\ SetupHasValue(content, KeyAnon))
            THEN <<"auth">> ELSE <<>>)]

hasIssues(needsSetup) ==
    \/ Len(needsSetup.servicesToStart) > 0
    \/ Len(needsSetup.configNeeded) > 0
    \/ Len(needsSetup.missingPrerequisites) > 0

\* the start prompt shown whatever is missing
AfterCheckIgnoringPrerequisites(needsSetup) ==
    IF ~hasIssues(needsSetup) THEN "testing" ELSE "askStart"

\* where runFinalConnectivityCheck goes once it has the requirements
AfterCheck(needsSetup) ==
    IF ~hasIssues(needsSetup) THEN "testing"
    ELSE IF Len(needsSetup.missingPrerequisites) > 0 THEN "askTest"
    ELSE "askStart"

AfterShouldTest(shouldTest) == IF shouldTest THEN "testing" ELSE "done"

AfterShouldStart(shouldStart, needsSetup) ==
    IF ~shouldStart THEN "done"
    ELSE IF Len(needsSetup.servicesToStart) > 0 THEN "starting"
    ELSE "testing"

YesNo(name, answer) == IF answer THEN name \o "=yes" ELSE name \o "=no"

\* the function moves on; it has returned when it is at "done"
Advance(to, event) ==
    /\ step' = to
    /\ effects' = Append(effects, event)
    /\ returned' = IF to = "done" THEN <<"void">> ELSE returned

CheckNeeds ==
    /\ call.name = "runFinalConnectivityCheck"
    /\ step = "called"
    /\ LET needsSetup == checkWhatNeedsSetup(ContentOrEmpty(envFile), call.config,
                                             call.supabaseRunning,
                                             call.dockerRunning)
       IN  /\ call' = [call EXCEPT !.needsSetup = needsSetup]
           /\ Advance(AfterCheck(needsSetup), "checkWhatNeedsSetup")
    /\ UNCHANGED <<dbVars, machineVars, cliVars, envVars>>

AnswerShouldTest ==
    /\ step = "askTest"
    /\ \E shouldTest \in BOOLEAN :
          Advance(AfterShouldTest(shouldTest), YesNo("shouldTest", shouldTest))
    /\ UNCHANGED <<dbVars, machineVars, cliVars, envVars, call>>

AnswerShouldStart ==
    /\ step = "askStart"
    /\ \E shouldStart \in BOOLEAN :
          Advance(AfterShouldStart(shouldStart, call.needsSetup),
                  YesNo("shouldStart", shouldStart))
    /\ UNCHANGED <<dbVars, machineVars, cliVars, envVars, call>>

\* await startRequiredServices(projectPath, needsSetup.servicesToStart)
StartServices ==
    /\ step = "starting"
    /\ \E running \in BOOLEAN, startOk \in BOOLEAN :
          \E status \in (IF ~running /\ startOk THEN Statuses ELSE {NoStatus}) :
             LET inp == [NoInput EXCEPT !.name = "startRequiredServices",
                                        !.running = running, !.startOk = startOk,
                                        !.status = status]
                 started == startRequiredServices(envFile, running, startOk, status)
             IN  /\ envFile' = started.file
                 /\ lastOp' = [inp |-> inp, creds |-> started.creds,
                               updates |-> started.updates,
                               rewrote |-> started.rewrote]
    /\ Advance("testing", "startRequiredServices")
    /\ UNCHANGED <<dbVars, machineVars, cliVars, prevFile, repeated, lastBackup, nOps, call>>

\* await testConnectivity(projectPath, config)
RunTests ==
    /\ step = "testing"
    /\ Advance("done", "testConnectivity")
    /\ UNCHANGED <<dbVars, machineVars, cliVars, envVars, call>>

\* setupProject has run createEnvFiles before the check
InitFinal ==
    /\ CliIdle
    /\ \E config \in Configs, supabaseRunning \in BOOLEAN, dockerRunning \in BOOLEAN :
          /\ call = [name |-> "runFinalConnectivityCheck", config |-> config,
                     supabaseRunning |-> supabaseRunning,
                     dockerRunning |-> dockerRunning,
                     needsSetup |-> NoRequirements]
          /\ \E before \in InitFiles :
                \E status \in (IF IsLocalConfig(config) THEN Statuses ELSE {NoStatus}) :
                   envFile = createEnvFiles(before, NoFile, config, status).file
    /\ prevFile = NoFile
    /\ lastOp = NoOp
    /\ repeated = FALSE
    /\ lastBackup = NoFile
    /\ nOps = 0
    /\ step = "called"
    /\ effects = <<>>
    /\ returned = <<>>

NextFinal ==
    \/ CheckNeeds
    \/ AnswerShouldTest
    \/ AnswerShouldStart
    \/ StartServices
    \/ RunTests

SpecFinal == InitFinal /\ [][NextFinal]_vars

(***************************************************************************)
(* the verify command (cli.ts) and verifySetup (verify.ts)                 *)
(***************************************************************************)
\* the build is run only while every check so far has passed
verifySetupBuildOnlyAfterSuccess(in) ==
    IF ~in.dirExists
    THEN Outcome(Returns(FALSE), <<>>)
    ELSE IF in.env.exists /\ in.readThrows
    THEN Outcome(Throws, <<"readFile">>)
    ELSE
      LET content   == in.env.content
          dbUrl     == MatchAnywhere(content, KeyDb).value
          url       == MatchAnywhere(content, KeyUrl).value
          anonKey   == MatchAnywhere(content, KeyAnon).value
          hasDb     == in.env.exists /\ VerifyHasValue(content, KeyDb)
          hasUrl    == in.env.exists /\ VerifyHasValue(content, KeyUrl)
          hasKey    == hasUrl /\ VerifyHasValue(content, KeyAnon)
          connected == in.driver = "present" /\ in.server = "accepts"
          dbPassed  == connected \/ isValidFormat(dbUrl)
          dbDone    == IF ~hasDb THEN <<>>
                       ELSE IF in.driver = "missing" THEN <<"import">>
                       ELSE IF in.server = "refuses" THEN <<"import", "connect">>
                       ELSE IF in.server = "queryFails"
                       THEN <<"import", "connect", "query">>
                       ELSE <<"import", "connect", "query", "end">>
          authPassed == testSupabaseConnection(url, anonKey, in.http).returned.value
          isLocal   == Includes(url, <<"localhost">>) \/ Includes(url, <<"127.0.0.1">>)
          localDone == IF hasUrl /\ isLocal
                       THEN <<"supabase --version">>
                            \o (IF in.cliInstalled THEN <<"supabase status">> ELSE <<>>)
                       ELSE <<>>
          localPassed == (hasUrl /\ isLocal /\ in.cliInstalled) => in.supabaseRunning
          envDone   == IF in.env.exists
                       THEN <<"readFile">> \o dbDone
                            \o (IF hasKey THEN <<"fetch">> ELSE <<>>) \o localDone
                       ELSE <<>>
          envPassed == /\ in.env.exists
                       /\ hasDb /\ dbPassed
                       /\ hasUrl /\ hasKey /\ authPassed
                       /\ localPassed
          before    == in.packageJson /\ in.nodeModules /\ envPassed
      IN  IF before
          THEN Outcome(Returns(in.build), envDone \o <<"pnpm run build">>)
          ELSE Outcome(Returns(FALSE), envDone)

\* verifySetup.  in holds what the project directory and the services
\* answer: dirExists, packageJson, nodeModules, env (.env.local),
\* readThrows (fs.readFile rejects), driver and server (the trial database
\* connection, as for testDatabaseConnection), http (fetch), cliInstalled,
\* supabaseRunning, build ('pnpm run build' succeeds).
verifySetup(in) ==
    IF ~in.dirExists
    THEN Outcome(Returns(FALSE), <<>>)
    ELSE IF in.env.exists /\ in.readThrows
    THEN Outcome(Throws, <<"readFile">>)
    ELSE
      LET content   == in.env.content
          dbUrl     == MatchAnywhere(content, KeyDb).value
          url       == MatchAnywhere(content, KeyUrl).value
          anonKey   == MatchAnywhere(content, KeyAnon).value
          hasDb     == in.env.exists /\ VerifyHasValue(content, KeyDb)
          hasUrl    == in.env.exists /\ VerifyHasValue(content, KeyUrl)
          hasKey    == hasUrl /\ VerifyHasValue(content, KeyAnon)
          connected == in.driver = "present" /\ in.server = "accepts"
          dbPassed  == connected \/ isValidFormat(dbUrl)
          dbDone    == IF ~hasDb THEN <<>>
                       ELSE IF in.driver = "missing" THEN <<"import">>
                       ELSE IF in.server = "refuses" THEN <<"import", "connect">>
                       ELSE IF in.server = "queryFails"
                       THEN <<"import", "connect", "query">>
                       ELSE <<"import", "connect", "query", "end">>
          authPassed == testSupabaseConnection(url, anonKey, in.http).returned.value
          isLocal   == Includes(url, <<"localhost">>) \/ Includes(url, <<"127.0.0.1">>)
          localDone == IF hasUrl /\ isLocal
                       THEN <<"supabase --version">>
                            \o (IF in.cliInstalled THEN <<"supabase status">> ELSE <<>>)
                       ELSE <<>>
          localPassed == (hasUrl /\ isLocal /\ in.cliInstalled) => in.supabaseRunning
          envDone   == IF in.env.exists
                       THEN <<"readFile">> \o dbDone
                            \o (IF hasKey THEN <<"fetch">> ELSE <<>>) \o localDone
                       ELSE <<>>
          envPassed == /\ in.env.exists
                       /\ hasDb /\ dbPassed
                       /\ hasUrl /\ hasKey /\ authPassed
                       /\ localPassed
          before    == in.packageJson /\ in.nodeModules /\ envPassed
      IN  Outcome(Returns(before /\ in.build), envDone \o <<"pnpm run build">>)

\* process.exit(success ? 0 : 1), and process.exit(1) in the catch
VerifyExitCode(outcome) ==
    IF outcome.threw THEN 1 ELSE IF outcome.value THEN 0 ELSE 1

\* .env.local as the tool leaves it
FetchedLocalFile ==
    createEnvFiles(NoFile, NoFile, [db |-> "", auth |-> FALSE],
                   [fails |-> FALSE,
                    output |-> StatusLine(LabelApiUrl, LocalApiUrl)
                               \o StatusLine(LabelDbUrl, LocalDbUrl)
                               \o StatusLine(LabelAnonKey, <<"eyJ-local-anon-key">>)]).file
DefaultLocalFile ==
    createEnvFiles(NoFile, NoFile, [db |-> "", auth |-> FALSE], NoStatus).file
TemplateFile ==
    createEnvFiles(NoFile, NoFile, [db |-> "neon", auth |-> TRUE], NoStatus).file
ProductionFile ==
    connectAuth(connectDatabase(FetchedLocalFile, ProdDbUrl, TRUE, FALSE).file,
                ProdApiUrl, ProdAnonKey, TRUE, FALSE).file
OtherDatabaseFile ==
    connectAuth(File(Assign(KeyDb, <<"mysql://", "prod-host/db">>) \o <<NL>>),
                ProdApiUrl, ProdAnonKey, TRUE, FALSE).file

VerifyFiles ==
    {NoFile, FetchedLocalFile, DefaultLocalFile, TemplateFile, ProductionFile,
     OtherDatabaseFile}

VerifyInputs ==
    [name : {"verify"}, dirExists : BOOLEAN, packageJson : BOOLEAN,
     nodeModules : BOOLEAN, env : VerifyFiles, readThrows : BOOLEAN,
     driver : Drivers, server : Servers,
     http : {h \in HttpResults : h.throws \/ h.status \in {200, 401}},
     cliInstalled : BOOLEAN, supabaseRunning : BOOLEAN, build : BOOLEAN]

\* a project directory that does not exist holds nothing, and only an
\* existing .env.local can fail to be read
InitVerify ==
    /\ CliIdle
    /\ EnvIdle
    /\ call \in {in \in VerifyInputs :
                    /\ ~in.dirExists
                          => (~in.packageJson /\ ~in.nodeModules /\ ~in.env.exists
                              /\ ~in.build)
                    /\ in.readThrows => in.env.exists}
    /\ step = "called"
    /\ effects = <<>>
    /\ returned = <<>>

\* const success = await verifySetup(options.path)
RunVerifySetup ==
    /\ call.name = "verify"
    /\ step = "called"
    /\ returned' = <<verifySetup(call).returned>>
    /\ effects' = verifySetup(call).effects
    /\ step' = "verified"
    /\ UNCHANGED <<dbVars, machineVars, cliVars, envVars, call>>

ExitVerify ==
    /\ call.name = "verify"
    /\ step = "verified"
    /\ exited' = TRUE
    /\ exitCode' = VerifyExitCode(returned[1])
    /\ step' = "exited"
    /\ UNCHANGED <<dbVars, machineVars, pc, checkResult, installActions, nextAction,
                   dispatched, log, envVars, call, effects, returned>>

NextVerify == RunVerifySetup \/ ExitVerify

SpecVerify == InitVerify /\ [][NextVerify]_vars

(***************************************************************************)
(* setupProject (setup.ts)                                                 *)
(***************************************************************************)
\* a missing Docker stops the setup
checkPrerequisitesBlocking(config, dockerRunning, cliInstalled) ==
    IF IsLocalConfig(config)
    THEN [events |-> <<"checkPrerequisites", YesNo("isDockerRunning", dockerRunning),
                       YesNo("isSupabaseCliInstalled", cliInstalled)>>,
          threw |-> ~dockerRunning]
    ELSE [events |-> <<"checkPrerequisites">>, threw |-> FALSE]

\* checkPrerequisites probes only in local mode and only prints warnings
checkPrerequisites(config, dockerRunning, cliInstalled) ==
    IF IsLocalConfig(config)
    THEN [events |-> <<"checkPrerequisites", YesNo("isDockerRunning", dockerRunning),
                       YesNo("isSupabaseCliInstalled", cliInstalled)>>,
          threw |-> FALSE]
    ELSE [events |-> <<"checkPrerequisites">>, threw |-> FALSE]

\* local Supabase set up whatever the configuration asks for
AfterInstallAlwaysLocal(config) == "localSupabase"

\* if (!config.useProductionDatabase) await setupLocalSupabase(...)
AfterInstall(config) == IF config.db = "" THEN "localSupabase" ELSE "envFiles"

\* Supabase started without asking whether Docker is running
setupLocalSupabaseWithoutDockerCheck(in) ==
    <<"setupLocalSupabase", YesNo("isSupabaseCliInstalled", in.cliInstalled)>>
    \o (IF ~in.cliInstalled THEN <<>>
        ELSE (IF in.supabaseDir THEN <<>> ELSE <<"npx supabase init">>)
             \o (IF ~in.supabaseDir /\ ~in.initOk THEN <<>>
                 ELSE <<YesNo("isSupabaseRunning", in.supabaseRunning)>>
                      \o (IF in.supabaseRunning THEN <<>>
                          ELSE <<"npx supabase start">>)))

\* setupLocalSupabase: what it probes and runs, in order.  A command that
\* fails throws into the catch, which only warns.
setupLocalSupabase(in) ==
    <<"setupLocalSupabase", YesNo("isSupabaseCliInstalled", in.cliInstalled)>>
    \o (IF ~in.cliInstalled THEN <<>>
        ELSE <<YesNo("isDockerRunning", in.dockerRunning)>>
             \o (IF ~in.dockerRunning THEN <<>>
                 ELSE (IF in.supabaseDir THEN <<>> ELSE <<"npx supabase init">>)
                      \o (IF ~in.supabaseDir /\ ~in.initOk THEN <<>>
                          ELSE <<YesNo("isSupabaseRunning", in.supabaseRunning)>>
                               \o (IF in.supabaseRunning THEN <<>>
                                   ELSE <<"npx supabase start">>))))

\* what setupLocalSupabase can meet; the answers that are never asked for
\* are fixed
LocalSupabaseInputs ==
    {in \in [cliInstalled : BOOLEAN, dockerRunning : BOOLEAN, supabaseDir : BOOLEAN,
             initOk : BOOLEAN, supabaseRunning : BOOLEAN] :
        /\ ~in.cliInstalled => ~in.dockerRunning
        /\ ~in.dockerRunning => in.supabaseDir
        /\ in.supabaseDir => in.initOk
        /\ ~in.initOk => ~in.supabaseRunning}

\* setupProject stops with the exception of a failed command
SetupThrows(event) ==
    /\ step' = "done"
    /\ effects' = Append(effects, event)
    /\ returned' = <<"threw">>

SetupGoes(to, events) ==
    /\ step' = to
    /\ effects' = effects \o events
    /\ returned' = returned

\* await checkPrerequisites(config, spinner)
SetupCheckPrerequisites ==
    /\ call.name = "setupProject"
    /\ step = "called"
    /\ \E dockerRunning \in BOOLEAN, cliInstalled \in BOOLEAN :
          LET checked == checkPrerequisites(call.config, dockerRunning, cliInstalled)
          IN  IF checked.threw
              THEN /\ step' = "done"
                   /\ effects' = effects \o checked.events
                   /\ returned' = <<"threw">>
              ELSE SetupGoes("install", checked.events)
    /\ UNCHANGED <<dbVars, machineVars, cliVars, envVars, call>>

\* execSync('pnpm install')
SetupInstall ==
    /\ call.name = "setupProject"
    /\ step = "install"
    /\ \E installOk \in BOOLEAN :
          IF installOk THEN SetupGoes(AfterInstall(call.config), <<"pnpm install">>)
          ELSE SetupThrows("pnpm install")
    /\ UNCHANGED <<dbVars, machineVars, cliVars, envVars, call>>

\* await setupLocalSupabase(projectPath, spinner)
SetupLocalSupabase ==
    /\ call.name = "setupProject"
    /\ step = "localSupabase"
    /\ \E in \in LocalSupabaseInputs : SetupGoes("envFiles", setupLocalSupabase(in))
    /\ UNCHANGED <<dbVars, machineVars, cliVars, envVars, call>>

\* await createEnvFiles(projectPath, config)
SetupCreateEnvFiles ==
    /\ call.name = "setupProject"
    /\ step = "envFiles"
    /\ \E example \in (IF envFile.exists THEN {NoFile} ELSE ExampleFiles) :
          \E status \in (IF IsLocalConfig(call.config) THEN Statuses ELSE {NoStatus}) :
             envFile' = createEnvFiles(envFile, example, call.config, status).file
    /\ SetupGoes("git", <<"createEnvFiles">>)
    /\ UNCHANGED <<dbVars, machineVars, cliVars, prevFile, lastOp, repeated, lastBackup,
                   nOps, call>>

\* git init when there is no .git, then the call of runFinalConnectivityCheck
SetupGitInit ==
    /\ call.name = "setupProject"
    /\ step = "git"
    /\ \E hasGit \in BOOLEAN, gitOk \in BOOLEAN :
          IF hasGit
          THEN /\ gitOk
               /\ SetupGoes("finalCheck", <<"pathExists(.git)=yes">>)
          ELSE IF gitOk
               THEN SetupGoes("finalCheck", <<"pathExists(.git)=no", "git init">>)
               ELSE /\ step' = "done"
                    /\ effects' = effects \o <<"pathExists(.git)=no", "git init">>
                    /\ returned' = <<"threw">>
    /\ UNCHANGED <<dbVars, machineVars, cliVars, envVars, call>>

\* await runFinalConnectivityCheck(projectPath, config, spinner)
SetupFinalCheck ==
    /\ call.name = "setupProject"
    /\ step = "finalCheck"
    /\ \E supabaseRunning \in BOOLEAN, dockerRunning \in BOOLEAN :
          call' = [name |-> "runFinalConnectivityCheck", config |-> call.config,
                   supabaseRunning |-> supabaseRunning,
                   dockerRunning |-> dockerRunning,
                   needsSetup |-> NoRequirements]
    /\ SetupGoes("called", <<"runFinalConnectivityCheck">>)
    /\ UNCHANGED <<dbVars, machineVars, cliVars, envVars>>

\* createApp has copied the template into a new directory
InitSetup ==
    /\ CliIdle
    /\ EnvIdle
    /\ \E config \in Configs : call = [name |-> "setupProject", config |-> config]
    /\ step = "called"
    /\ effects = <<>>
    /\ returned = <<>>

NextSetup ==
    \/ SetupCheckPrerequisites
    \/ SetupInstall
    \/ SetupLocalSupabase
    \/ SetupCreateEnvFiles
    \/ SetupGitInit
    \/ SetupFinalCheck
    \/ CheckNeeds
    \/ AnswerShouldTest
    \/ AnswerShouldStart
    \/ StartServices
    \/ RunTests

SpecSetup == InitSetup /\ [][NextSetup]_vars

(***************************************************************************)
(* The environment probes (utils.ts), each on its own                      *)
(***************************************************************************)
\* a component read by its first digit only
NumberOfFirstDigit(digits) == IF digits = <<>> THEN 0 ELSE digits[1]

\* Number(text) on a string of decimal digits, given as the sequence of its
\* digits; Number('') is 0
RECURSIVE Number(_)
Number(digits) ==
    IF digits = <<>> THEN 0
    ELSE Number(SubSeq(digits, 1, Len(digits) - 1)) * 10 + digits[Len(digits)]

\* version.split('.').map(Number): a version text is the sequence of its
\* dot-separated components
splitMapNumber(version) == [i \in 1..Len(version) |-> Number(version[i])]

\* Docker taken to be running whatever "docker info" does
isDockerRunningOptimistic(dockerInfo) == TRUE

\* execSync('docker info') in a try/catch
isDockerRunning(dockerInfo) == ~dockerInfo.throws

\* execSync('npx supabase --version') in a try/catch
isSupabaseCliInstalled(supabaseVersion) == ~supabaseVersion.throws

MaxComponents == 3

VersionComponents == {<<0>>, <<8>>, <<1, 0>>, <<2, 0>>}

VersionTexts ==
    UNION {[1..n -> VersionComponents] : n \in 1..MaxComponents}
    \cup {<<<<7>>, <<9>>, <<9>>>>, <<<<1, 9>>, <<9>>, <<9>>>>}

MinimumTexts ==
    {v \in VersionTexts : Len(v) <= 3}

CommandResults == [throws : BOOLEAN]

ProbeCalls ==
    [name : {"compareVersions"}, version : VersionTexts, minVersion : MinimumTexts]
    \cup [name : {"checkNodeVersion", "checkPnpm"}, version : VersionTexts \cup {Null}]
    \cup [name : {"checkLocalDependencies"}]
    \cup [name : {"isDockerRunning", "isSupabaseCliInstalled"},
          command : CommandResults]
    \cup [name : {"isSupabaseRunning"}, status : Statuses]

\* the machine the probe runs on: process.version and "pnpm --version" are
\* the texts of the call
InitEnvProbe ==
    /\ call \in ProbeCalls
    /\ nodeVersion = IF call.name = "checkNodeVersion" /\ call.version # Null
                     THEN splitMapNumber(call.version)
                     ELSE IF call.name = "checkNodeVersion" THEN Null
                     ELSE <<20, 0, 0>>
    /\ pnpmVersion = IF call.name = "checkPnpm" /\ call.version # Null
                     THEN splitMapNumber(call.version)
                     ELSE IF call.name = "checkPnpm" THEN Null
                     ELSE <<10, 0, 0>>
    /\ isNpxTempDir \in BOOLEAN
    /\ hasPackageJson \in BOOLEAN
    /\ hasNodeModules \in BOOLEAN
    /\ installedDeps \in DepStates
    /\ (~hasNodeModules => installedDeps = {})
    /\ (call.name # "checkLocalDependencies"
           => (~isNpxTempDir /\ hasPackageJson /\ hasNodeModules
               /\ installedDeps = requiredDeps))
    /\ pc = "Satisfied"
    /\ checkResult = NoCheck
    /\ installActions = <<>>
    /\ nextAction = 1
    /\ exited = FALSE
    /\ exitCode = 0
    /\ dispatched = TRUE
    /\ log = <<>>
    /\ DbIdle
    /\ EnvIdle
    /\ step = "called"
    /\ effects = <<>>
    /\ returned = <<>>

ProbeReturns(value) ==
    /\ step = "called"
    /\ returned' = <<Returns(value)>>
    /\ step' = "done"
    /\ UNCHANGED <<dbVars, machineVars, cliVars, envVars, call, effects>>

ProbeCompareVersions ==
    /\ call.name = "compareVersions"
    /\ ProbeReturns(compareVersions(splitMapNumber(call.version),
                                    splitMapNumber(call.minVersion)))

ProbeNodeVersion ==
    /\ call.name = "checkNodeVersion"
    /\ ProbeReturns(checkNodeVersion)

ProbePnpm ==
    /\ call.name = "checkPnpm"
    /\ ProbeReturns(checkPnpm)

ProbeLocalDependencies ==
    /\ call.name = "checkLocalDependencies"
    /\ ProbeReturns(checkLocalDependencies)

ProbeDocker ==
    /\ call.name = "isDockerRunning"
    /\ ProbeReturns(isDockerRunning(call.command))

ProbeSupabaseCli ==
    /\ call.name = "isSupabaseCliInstalled"
    /\ ProbeReturns(isSupabaseCliInstalled(call.command))

ProbeSupabaseRunning ==
    /\ call.name = "isSupabaseRunning"
    /\ ProbeReturns(isSupabaseRunning(call.status))

NextEnvProbe ==
    \/ ProbeCompareVersions
    \/ ProbeNodeVersion
    \/ ProbePnpm
    \/ ProbeLocalDependencies
    \/ ProbeDocker
    \/ ProbeSupabaseCli
    \/ ProbeSupabaseRunning

SpecEnvProbe == InitEnvProbe /\ [][NextEnvProbe]_vars

(***************************************************************************)
(* The process-wide database handle (lib/db.ts of the generated app)       *)
(***************************************************************************)
MaxDbCalls == 4

Client(n) == <<"client", n>>

\* drizzle(client, { schema })
Drizzle(client) == <<"db", client[2]>>

\* a client made on every call
getDatabaseWithoutCache(databaseUrl) ==
    IF databaseUrl = Null
    THEN [returned |-> Throws, made |-> Null,
          cachedClient |-> cachedClient, cachedDb |-> cachedDb]
    ELSE [returned |-> Returns(Drizzle(Client(clients + 1))),
          made |-> Client(clients + 1),
          cachedClient |-> Client(clients + 1),
          cachedDb |-> Drizzle(Client(clients + 1))]

\* getDatabase: databaseUrl is process.env.DATABASE_URL at the call; made is
\* the client postgres() created, if any
getDatabase(databaseUrl) ==
    IF databaseUrl = Null
    THEN [returned |-> Throws, made |-> Null,
          cachedClient |-> cachedClient, cachedDb |-> cachedDb]
    ELSE IF cachedClient # Null /\ cachedDb # Null
    THEN [returned |-> Returns(cachedDb), made |-> Null,
          cachedClient |-> cachedClient, cachedDb |-> cachedDb]
    ELSE [returned |-> Returns(Drizzle(Client(clients + 1))),
          made |-> Client(clients + 1),
          cachedClient |-> Client(clients + 1),
          cachedDb |-> Drizzle(Client(clients + 1))]

DatabaseUrls == {Null, LocalDbUrl}

DbCalls == Len(SelectSeq(effects, LAMBDA e : e.op \in {"getDatabase", "closeDatabase"}))

Cache == [client |-> cachedClient, db |-> cachedDb]

DbEvent(op, databaseUrl, outcome, made, awaited, after) ==
    [op |-> op, databaseUrl |-> databaseUrl, returned |-> outcome, made |-> made,
     awaited |-> awaited, before |-> Cache, after |-> after]

CallGetDatabase ==
    /\ call.name = "db"
    /\ DbCalls < MaxDbCalls
    /\ \E databaseUrl \in DatabaseUrls :
          LET got == getDatabase(databaseUrl)
          IN  /\ cachedClient' = got.cachedClient
              /\ cachedDb' = got.cachedDb
              /\ clients' = IF got.made = Null THEN clients ELSE clients + 1
              /\ returned' = <<got.returned>>
              /\ effects' = Append(effects,
                               DbEvent("getDatabase", databaseUrl, got.returned,
                                       got.made, Null,
                                       [client |-> got.cachedClient,
                                        db |-> got.cachedDb]))
    /\ UNCHANGED <<machineVars, cliVars, envVars, call, step, ended, closing>>

\* closeDatabase up to its await: with nothing cached it returns at once,
\* otherwise it calls end() on the cached client and waits
CallCloseDatabase ==
    /\ call.name = "db"
    /\ DbCalls < MaxDbCalls
    /\ closing' = IF cachedClient # Null THEN Append(closing, cachedClient)
                  ELSE closing
    /\ returned' = IF cachedClient # Null THEN returned ELSE <<Returns(Null)>>
    /\ effects' = Append(effects,
                     DbEvent("closeDatabase", Null, Returns(Null), Null,
                             cachedClient, Cache))
    /\ UNCHANGED <<machineVars, cliVars, envVars, call, step, cachedClient,
                   cachedDb, clients, ended>>

\* closeDatabase after its await: end() has resolved
ResumeCloseDatabase ==
    /\ call.name = "db"
    /\ \E i \in 1..Len(closing) :
          /\ ended' = ended \cup {closing[i]}
          /\ closing' = SubSeq(closing, 1, i - 1) \o SubSeq(closing, i + 1, Len(closing))
          /\ cachedClient' = Null
          /\ cachedDb' = Null
          /\ returned' = <<Returns(Null)>>
          /\ effects' = Append(effects,
                           DbEvent("closeDatabase resumed", Null, Returns(Null), Null,
                                   closing[i], [client |-> Null, db |-> Null]))
    /\ UNCHANGED <<machineVars, cliVars, envVars, call, step, clients>>

InitDb ==
    /\ CliIdle
    /\ EnvIdle
    /\ call = [name |-> "db"]
    /\ step = "called"
    /\ effects = <<>>
    /\ returned = <<>>

NextDb ==
    \/ CallGetDatabase
    \/ CallCloseDatabase
    \/ ResumeCloseDatabase

SpecDb == InitDb /\ [][NextDb]_vars

(***************************************************************************)
(* Properties of initializeCLI                                             *)
(***************************************************************************)
PnpmActs == {"installPnpm", "upgradePnpm"}
InstallActs == PnpmActs \cup {"installLocalDependencies"}

Did(acts) == {i \in 1..Len(log) : log[i].act \in acts}
DidWith(acts, results) ==
    {i \in 1..Len(log) : log[i].act \in acts /\ log[i].result \in results}

\* C1: when both pnpm and the local dependencies are to be installed, every
\* run of installLocalDependencies comes after a completed, successful pnpm
\* remediation; and once the pnpm remediation has failed (generic or
\* needsSudo) installLocalDependencies is never run and the process has
\* exited with code 1.
C1_PnpmBeforeLocalDeps ==
    /\ (\E k \in 1..Len(installActions) : installActions[k] \in PnpmActs)
          => \A j \in Did({"installLocalDependencies"}) :
                \E i \in DidWith(PnpmActs, {"ok"}) : i < j
    /\ DidWith(PnpmActs, {"failed", "needsSudo"}) # {}
          => /\ Did({"installLocalDependencies"}) = {}
             /\ exited
             /\ exitCode = 1

C1_Witness ==
    /\ Len(installActions) = 2
    /\ \E i \in DidWith(PnpmActs, {"ok"}) :
          \E j \in Did({"installLocalDependencies"}) : i < j

\* C2: initializeCLI returns normally exactly when the most recent
\* checkDependencies result is a success: either the first probe succeeded
\* and nothing else was done, or the user consented, every install action
\* succeeded and the re-check succeeded.  Every other outcome has exited with
\* a non-zero code, and no command is dispatched after an exit.
C2_ReturnsIffLastCheckSucceeded ==
    /\ pc = "Satisfied"
          => /\ checkResult.success
             /\ ~exited
             /\ \/ log = <<[act |-> "checkDependencies", result |-> "ok"]>>
                \/ /\ log[Len(log)] = [act |-> "recheckDependencies", result |-> "ok"]
                   /\ DidWith({"answer"}, {"yes"}) # {}
                   /\ Cardinality(DidWith(InstallActs, {"ok"})) = Len(installActions)
                   /\ DidWith(InstallActs, {"failed", "needsSudo"}) = {}
    /\ pc = "Blocked"
          => /\ ~checkResult.success
             /\ exited
             /\ exitCode # 0
    /\ dispatched => pc = "Satisfied"
    /\ exited => pc = "Blocked"

C2_Witness ==
    /\ pc = "Satisfied"
    /\ dispatched
    /\ Len(installActions) > 0

\* C3: after the user answered no to the confirmation prompt, no remediation
\* has run, no re-check has run, and the process has exited with code 1.
C3_DeclineBlocks ==
    DidWith({"answer"}, {"no"}) # {}
       => /\ Did(InstallActs) = {}
          /\ Did({"recheckDependencies"}) = {}
          /\ exited
          /\ exitCode = 1
          /\ ~dispatched

C3_Witness ==
    /\ DidWith({"answer"}, {"no"}) # {}
    /\ Len(installActions) > 0

NodeBelow20 == nodeVersion # Null /\ nodeVersion[1] < 20

\* C4: with a Node.js version below 20.0.0 the invocation is never
\* Satisfied and dispatches nothing, every finished invocation has exit code
\* 1, and when the Node.js error is the only one the first probe reports
\* there is neither a prompt nor a remediation.
C4_OldNodeAlwaysBlocked ==
    NodeBelow20
       => /\ pc # "Satisfied"
          /\ ~dispatched
          /\ (~ENABLED NextCLI => exited /\ exitCode = 1)
          /\ (checkResult.errors = {"node"} /\ Did({"recheckDependencies"}) = {})
                => /\ Did(InstallActs \cup {"prompt", "answer"}) = {}
                   /\ pc = "Blocked"

C4_Witness ==
    /\ NodeBelow20
    /\ exited
    /\ Did({"recheckDependencies"}) # {}

(***************************************************************************)
(* Properties of the env-file reconciliation                               *)
(***************************************************************************)
ContentOf(file) == IF file.exists THEN file.content ELSE <<>>

ActiveLines(content, key) ==
    {i \in 1..Len(SplitLines(content)) : IsActive(SplitLines(content)[i], key)}

HasLine(content, line) ==
    \E i \in 1..Len(SplitLines(content)) : SplitLines(content)[i] = line

Ran(names) == lastOp.inp.name \in names

\* C5: after any reconciliation operation each recognized key has at most
\* one active assignment line in .env.local, whatever the file held before.
C5_AtMostOneActiveAssignment ==
    (lastOp.inp.name # "none" /\ envFile.exists)
        => \A key \in RecognizedKeys :
              Cardinality(ActiveLines(envFile.content, key)) <= 1

\* C6: every operation that rewrites a .env.local that existed before it
\* has made, in the same operation, a backup copy holding the content the
\* file had before the rewrite.
C6_RewriteHasBackup ==
    lastOp.rewrote => (lastBackup.exists /\ lastBackup = prevFile)

\* C7: updateEnvFile is idempotent: the second of two successive calls with
\* the same {K: V} leaves the content as the first call left it, and the
\* file has exactly one active K line, which is K=V.
C7_UpdateEnvFileIdempotent ==
    (Ran({"updateEnvFile"}) /\ repeated)
        => LET key   == lastOp.inp.updates[1].key
               value == lastOp.inp.updates[1].value
           IN  /\ envFile = prevFile
               /\ Cardinality(ActiveLines(envFile.content, key)) = 1
               /\ HasLine(envFile.content, Assign(key, value))

\* C8: updateEnvFile(path, {K: V}) changes nothing but the K line: with an
\* active K line in the file, the text before that line and the text after
\* it are kept and one line stands between them; with none, the file is
\* its former content, terminated by a newline, followed by the line K=V.
C8_UpdateEnvFileFrame ==
    Ran({"updateEnvFile"})
        => LET key    == lastOp.inp.updates[1].key
               value  == lastOp.inp.updates[1].value
               old    == ContentOf(prevFile)
               new    == envFile.content
               lines  == SplitLines(old)
               i      == FirstActive(lines, key)
               before == TextBefore(lines, i)
               after  == TextAfter(lines, i)
           IN  IF i # 0
               THEN /\ Len(new) >= Len(before) + Len(after)
                    /\ StartsWith(new, before)
                    /\ EndsWith(new, after)
                    /\ ~Includes(SubSeq(new, Len(before) + 1,
                                        Len(new) - Len(after)), <<NL>>)
               ELSE new = (IF old # <<>> /\ ~EndsWith(old, <<NL>>)
                           THEN old \o <<NL>> ELSE old)
                          \o Assign(key, value) \o <<NL>>

AllLabels(status) ==
    /\ ~status.fails
    /\ Includes(status.output, LabelApiUrl)
    /\ Includes(status.output, LabelAnonKey)
    /\ Includes(status.output, LabelDbUrl)

FetchedKeys == {KeyUrl, KeyAnon, KeyDb}

\* C9: getSupabaseLocalCredentials returns an object only when the status
\* command succeeded and its output holds all three labels, and the object
\* is never partial; createEnvFiles and startRequiredServices pass
\* updateEnvFile all three fetched values in one call or do not call it,
\* so .env.local gets all three assignments or none.
C9_CredentialsAllOrNone ==
    Ran({"createEnvFiles", "startRequiredServices"})
        => /\ lastOp.creds.ok => AllLabels(lastOp.inp.status)
           /\ lastOp.creds.ok => /\ lastOp.creds.apiUrl # <<>>
                                 /\ lastOp.creds.anonKey # <<>>
                                 /\ lastOp.creds.dbUrl # <<>>
           /\ ~lastOp.creds.ok => /\ lastOp.creds = NoCredentials
                                  /\ lastOp.updates = <<>>
           /\ lastOp.updates # <<>>
                 => /\ lastOp.updates = CredentialUpdates(lastOp.creds)
                    /\ {lastOp.updates[i].key : i \in 1..Len(lastOp.updates)}
                          = FetchedKeys
                    /\ \A i \in 1..Len(lastOp.updates) :
                          HasLine(envFile.content,
                                  Assign(lastOp.updates[i].key,
                                         lastOp.updates[i].value))

\* the status command succeeded without the DB URL line: no credentials
\* were returned and the existing .env.local was left as it was
C9_Witness ==
    /\ Ran({"startRequiredServices"})
    /\ ~lastOp.inp.status.fails
    /\ Includes(lastOp.inp.status.output, LabelApiUrl)
    /\ Includes(lastOp.inp.status.output, LabelAnonKey)
    /\ ~Includes(lastOp.inp.status.output, LabelDbUrl)
    /\ ~lastOp.creds.ok
    /\ prevFile.exists
    /\ envFile = prevFile

\* C10: every reader of .env.local decides "configured" as
\* isEnvValueConfigured does on the variable's active assignment: verifySetup
\* counts a variable as configured, and checkStatus reports it as a
\* production service, only when checkWhatNeedsSetup's test accepts it, and
\* verifySetup counts it whenever that test accepts it.
C10_ReadersAgree ==
    envFile.exists
        => /\ \A key \in FetchedKeys :
                 VerifyHasValue(envFile.content, key)
                    = SetupHasValue(envFile.content, key)
           /\ \A key \in {KeyDb, KeyUrl} :
                 StatusShowsProduction(envFile.content, key)
                    => SetupHasValue(envFile.content, key)

(***************************************************************************)
(* Properties of isEnvValueConfigured                                      *)
(***************************************************************************)
Range(seq) == {seq[i] : i \in 1..Len(seq)}

FirstOf(S) == CHOOSE i \in S : \A j \in S : i <= j

\* the value as the claim reads it: the first character that is not white
\* space is not '#', and the text before the first '#' has a character that
\* is not white space and holds none of the type's placeholders
ReadsAsConfigured(value, type) ==
    LET hashes   == {i \in 1..Len(value) : value[i] = "#"}
        cut      == IF hashes = {} THEN Len(value) ELSE FirstOf(hashes) - 1
        solid    == {i \in 1..Len(value) : value[i] \notin {SP, NL}}
        solidCut == {i \in solid : i <= cut}
    IN  /\ solid # {}
        /\ value[FirstOf(solid)] # "#"
        /\ solidCut # {}
        /\ \A pattern \in placeholderPatterns(type) :
              \A i \in 1..cut :
                 ~(/\ i + Len(pattern) - 1 <= cut
                   /\ \A k \in 1..Len(pattern) : value[i + k - 1] = pattern[k])

\* C11: isEnvValueConfigured(value, type) is true exactly when the trimmed
\* value does not start with '#' and the trimmed part before the first '#'
\* is non-empty and contains no placeholder of the type; the four values
\* the specification names are classified false, true, false, true.
C11_ConfiguredIffRealValue ==
    (call.name = "isEnvValueConfigured" /\ step = "done")
        => /\ returned = <<ReadsAsConfigured(call.value, call.type)>>
           /\ (call.value = YourProductionDatabaseUrl /\ call.type = "database")
                 => returned = <<FALSE>>
           /\ (call.value = <<"postgresql://", "u:p@h:5432/d">>
                /\ call.type = "database") => returned = <<TRUE>>
           /\ (call.value # <<>> /\ Head(call.value) = "#")
                 => returned = <<FALSE>>
           /\ (call.value = InlineCommentValue /\ call.type = "database")
                 => returned = <<TRUE>>

\* the value with an inline comment after a real URL was classified
C11_Witness ==
    /\ call.name = "isEnvValueConfigured"
    /\ step = "done"
    /\ call.value = InlineCommentValue
    /\ call.type = "database"
    /\ returned = <<TRUE>>

(***************************************************************************)
(* Properties of the Connectivity Prober                                   *)
(***************************************************************************)
Called(name) == call.name = name /\ step = "done"

\* C12: for a URL of valid format, with the driver available, a trial
\* connection or SELECT 1 that fails makes testDatabaseConnection return
\* false; true on the format alone is returned only when the driver is
\* unavailable.
C12_UnreachableDatabaseIsFalse ==
    (Called("testDatabaseConnection") /\ isValidFormat(call.dbUrl))
        => /\ (call.driver = "present" /\ call.server # "accepts")
                 => returned = <<Returns(FALSE)>>
           /\ (returned = <<Returns(TRUE)>> /\ "end" \notin Range(effects))
                 => call.driver = "missing"

\* C13: for a URL that starts with neither postgresql:// nor postgres://
\* testDatabaseConnection returns false, and neither imports the driver
\* nor attempts a connection.
C13_BadFormatFailsFast ==
    (Called("testDatabaseConnection")
     /\ (call.dbUrl = <<>> \/ Head(call.dbUrl) \notin {"postgresql://", "postgres://"}))
        => /\ returned = <<Returns(FALSE)>>
           /\ effects = <<>>

\* a mysql:// URL was probed with the driver present and the server up
C13_Witness ==
    /\ Called("testDatabaseConnection")
    /\ call.dbUrl # <<>>
    /\ Head(call.dbUrl) = "mysql://"
    /\ call.driver = "present"
    /\ call.server = "accepts"
    /\ returned = <<Returns(FALSE)>>

\* C14: testSupabaseConnection issues one GET to <url>/rest/v1/ and returns
\* true exactly when the response is ok (status 200..299); a non-ok
\* response and an error of the HTTP layer give false, and no exception
\* escapes.
C14_AuthProbeClassifies ==
    Called("testSupabaseConnection")
        => /\ effects = <<(<<"GET">> \o call.url \o <<"/rest/v1/">>)>>
           /\ ~returned[1].threw
           /\ returned[1].value
                 = (~call.http.throws /\ call.http.status >= 200
                    /\ call.http.status <= 299)
           /\ (~call.http.throws /\ call.http.status = 401)
                 => returned = <<Returns(FALSE)>>

\* the HTTP layer threw and the probe returned false
C14_Witness ==
    /\ Called("testSupabaseConnection")
    /\ call.http.throws
    /\ returned = <<Returns(FALSE)>>

(***************************************************************************)
(* Properties of connectAuth, connectDatabase and createEnvFiles           *)
(***************************************************************************)
MentioningLines(content, key) ==
    {i \in 1..Len(SplitLines(content)) : Includes(SplitLines(content)[i], <<key>>)}

HoldsLocalAuth(file) ==
    /\ file.exists
    /\ \/ HasLine(file.content, Assign(KeyUrl, LocalApiUrl))
       \/ HasLine(file.content, Assign(KeyAnon, YourLocalAnonKey))

EnteredValue(key) == IF key = KeyUrl THEN lastOp.inp.url ELSE lastOp.inp.anonKey

\* C15: connectAuth on a .env.local that holds local auth values, with a
\* pair whose probe succeeds, leaves exactly one active line for
\* NEXT_PUBLIC_SUPABASE_URL and one for NEXT_PUBLIC_SUPABASE_ANON_KEY, each
\* carrying the entered value and none the old local one, and has made a
\* backup whose content is the content of .env.local before the operation.
C15_PromoteAuthReplacesLocalPair ==
    (Ran({"connectAuth"}) /\ lastOp.inp.isConnected /\ HoldsLocalAuth(prevFile))
        => /\ envFile.exists
           /\ \A key \in {KeyUrl, KeyAnon} :
                 /\ Cardinality(ActiveLines(envFile.content, key)) = 1
                 /\ \A i \in ActiveLines(envFile.content, key) :
                       SplitLines(envFile.content)[i]
                          = Assign(key, EnteredValue(key))
           /\ ~HasLine(envFile.content, Assign(KeyUrl, LocalApiUrl))
           /\ ~HasLine(envFile.content, Assign(KeyAnon, YourLocalAnonKey))
           /\ lastBackup.exists
           /\ lastBackup.content = prevFile.content

\* the file generated from the local defaults was promoted
C15_Witness ==
    /\ Ran({"connectAuth"})
    /\ lastOp.inp.isConnected
    /\ prevFile.exists
    /\ HasLine(prevFile.content, Assign(KeyUrl, LocalApiUrl))
    /\ HasLine(prevFile.content, Assign(KeyAnon, YourLocalAnonKey))
    /\ HasLine(envFile.content, Assign(KeyUrl, ProdApiUrl))
    /\ lastBackup = prevFile

FetchedValue(key) ==
    IF key = KeyUrl THEN lastOp.creds.apiUrl
    ELSE IF key = KeyAnon THEN lastOp.creds.anonKey
    ELSE lastOp.creds.dbUrl

StartedEmpty == ~prevFile.exists \/ prevFile.content = <<>>

\* C16: in local mode, when the full triple was fetched, createEnvFiles on
\* an empty or absent .env.local (the latter generated from the defaults
\* or copied from .env.example) leaves each of the three keys with an active
\* assignment of the fetched value, and no line that mentions one of the
\* keys, active or commented, holds anything else.
C16_LocalModeWritesFetchedTriple ==
    (Ran({"createEnvFiles"}) /\ IsLocalConfig(lastOp.inp.config)
     /\ lastOp.creds.ok /\ StartedEmpty)
        => /\ envFile.exists
           /\ \A key \in FetchedKeys :
                 /\ ActiveLines(envFile.content, key) # {}
                 /\ \A i \in MentioningLines(envFile.content, key) :
                       SplitLines(envFile.content)[i]
                          = Assign(key, FetchedValue(key))

\* no .env.local and no .env.example: the file was generated from the
\* defaults and the fetched anon key replaced the placeholder
C16_Witness ==
    /\ Ran({"createEnvFiles"})
    /\ IsLocalConfig(lastOp.inp.config)
    /\ lastOp.creds.ok
    /\ ~prevFile.exists
    /\ ~lastOp.inp.example.exists
    /\ HasLine(envFile.content, Assign(KeyAnon, lastOp.creds.anonKey))
    /\ HasLine(envFile.content, Assign(KeySite, LocalSiteUrl))

\* C17: connectAuth and connectDatabase leave .env.local as it was when the
\* probe failed and the user declined to continue; the file differs from
\* what it was only when the probe succeeded or the user confirmed.
C17_DeclinedConnectChangesNothing ==
    Ran({"connectAuth", "connectDatabase"})
        => /\ (~lastOp.inp.isConnected /\ ~lastOp.inp.continue)
                 => (envFile = prevFile /\ ~lastOp.rewrote)
           /\ envFile # prevFile
                 => (lastOp.inp.isConnected \/ lastOp.inp.continue)

\* the probe failed on an existing file and the user declined
C17_Witness ==
    /\ Ran({"connectDatabase"})
    /\ ~lastOp.inp.isConnected
    /\ ~lastOp.inp.continue
    /\ prevFile.exists
    /\ HasLine(prevFile.content, DbLine)
    /\ envFile = prevFile

(***************************************************************************)
(* Properties of runFinalConnectivityCheck                                 *)
(***************************************************************************)
Prompts == {"shouldTest=yes", "shouldTest=no", "shouldStart=yes", "shouldStart=no"}

At(event) == {i \in 1..Len(effects) : effects[i] = event}

PromptsShown == {i \in 1..Len(effects) : effects[i] \in Prompts}

FinalCheckDone == call.name = "runFinalConnectivityCheck" /\ step = "done"

\* C20: runFinalConnectivityCheck takes one of three paths.  With missing
\* prerequisites the tests run only after the user confirmed, and no
\* service is started.  With none missing but services to start or
\* configuration needed, one yes/no prompt is shown; "no" starts nothing
\* and runs no tests, "yes" starts the listed services, if any, and then
\* runs the tests.  With nothing listed the tests run with no prompt.
C20_ThreePaths ==
    FinalCheckDone
        => LET needs   == call.needsSetup
               missing == Len(needs.missingPrerequisites) > 0
               toStart == Len(needs.servicesToStart) > 0
               toFix   == Len(needs.configNeeded) > 0
           IN  /\ missing
                     => /\ At("startRequiredServices") = {}
                        /\ At("shouldStart=yes") \cup At("shouldStart=no") = {}
                        /\ Cardinality(PromptsShown) = 1
                        /\ At("testConnectivity") # {} <=> At("shouldTest=yes") # {}
               /\ (~missing /\ (toStart \/ toFix))
                     => /\ Cardinality(PromptsShown) = 1
                        /\ At("shouldTest=yes") \cup At("shouldTest=no") = {}
                        /\ At("shouldStart=no") # {}
                              => effects = <<"checkWhatNeedsSetup", "shouldStart=no">>
                        /\ (At("shouldStart=yes") # {} /\ toStart)
                              => effects = <<"checkWhatNeedsSetup", "shouldStart=yes",
                                            "startRequiredServices", "testConnectivity">>
                        /\ (At("shouldStart=yes") # {} /\ ~toStart)
                              => effects = <<"checkWhatNeedsSetup", "shouldStart=yes",
                                            "testConnectivity">>
               /\ (~missing /\ ~toStart /\ ~toFix)
                     => effects = <<"checkWhatNeedsSetup", "testConnectivity">>

\* Docker is missing and the user asked for the tests anyway
C20_Witness ==
    /\ FinalCheckDone
    /\ Len(call.needsSetup.missingPrerequisites) > 0
    /\ Len(call.needsSetup.configNeeded) > 0
    /\ effects = <<"checkWhatNeedsSetup", "shouldTest=yes", "testConnectivity">>

(***************************************************************************)
(* Properties of the verify command                                        *)
(***************************************************************************)
VerifyExited == call.name = "verify" /\ step = "exited"

BuildRan == \E i \in 1..Len(effects) : effects[i] = "pnpm run build"

BuildRanLast == effects # <<>> /\ effects[Len(effects)] = "pnpm run build"

ExitCodeFollowsResult ==
    /\ exited
    /\ exitCode = 0 <=> returned = <<Returns(TRUE)>>
    /\ exitCode # 0 => exitCode = 1

\* C18: the verify command exits 0 if verifySetup returned true and 1
\* otherwise, also when it threw; whenever the project directory exists the
\* build is run as the last check whatever the earlier checks gave, and a
\* failed build alone gives exit code 1; without the project directory the
\* result is failure and no build is run.
C18_BuildAlwaysLastGate ==
    VerifyExited
        => /\ ExitCodeFollowsResult
           /\ call.dirExists => BuildRanLast
           /\ (call.dirExists /\ ~call.build) => exitCode = 1
           /\ ~call.dirExists => (exitCode = 1 /\ ~BuildRan)

\* C18 as amended: as above, except that the build is the last check
\* whenever the project directory exists and reading .env.local does not
\* throw; when it throws, the command exits 1 and no build is run.
C18_BuildLastGateUnlessThrown ==
    VerifyExited
        => /\ ExitCodeFollowsResult
           /\ (call.dirExists /\ ~call.readThrows) => BuildRanLast
           /\ (call.dirExists /\ ~call.readThrows /\ ~call.build) => exitCode = 1
           /\ call.readThrows
                 => (returned = <<Throws>> /\ exitCode = 1 /\ ~BuildRan)
           /\ ~call.dirExists => (exitCode = 1 /\ ~BuildRan)

\* package.json is missing, the build ran all the same and passed, and the
\* command exited 1
C18_Witness ==
    /\ VerifyExited
    /\ call.dirExists
    /\ ~call.packageJson
    /\ call.build
    /\ BuildRanLast
    /\ exitCode = 1

\* C19: verify exits 0 only if the trial connection to the configured
\* DATABASE_URL succeeded: with DATABASE_URL configured and the trial
\* connection not succeeding, the exit code is 1.
C19_ExitZeroNeedsDatabaseConnection ==
    (VerifyExited /\ call.dirExists /\ call.env.exists
     /\ VerifyHasValue(call.env.content, KeyDb)
     /\ ~(call.driver = "present" /\ call.server = "accepts"))
        => exitCode = 1

(***************************************************************************)
(* Properties of checkWhatNeedsSetup                                       *)
(***************************************************************************)
\* checkWhatNeedsSetup has returned to runFinalConnectivityCheck
NeedsKnown == call.name = "runFinalConnectivityCheck" /\ step # "called"

\* C21: in local mode, Supabase not running with Docker live lists
\* "Supabase (local)" in servicesToStart and no missing prerequisite;
\* Supabase not running without Docker lists Docker in missingPrerequisites
\* and nothing in servicesToStart; Supabase running leaves both lists empty.
\* servicesToStart and missingPrerequisites are never both non-empty.
C21_StartableOrMissing ==
    NeedsKnown
        => LET needsSetup == call.needsSetup
               running == call.supabaseRunning
               docker == call.dockerRunning
           IN  /\ IsLocalConfig(call.config)
                    => /\ (~running /\ docker)
                          => /\ needsSetup.servicesToStart = <<"Supabase (local)">>
                             /\ needsSetup.missingPrerequisites = <<>>
                       /\ (~running /\ ~docker)
                          => /\ needsSetup.missingPrerequisites = <<"Docker Desktop">>
                             /\ needsSetup.servicesToStart = <<>>
                       /\ running
                          => /\ needsSetup.servicesToStart = <<>>
                             /\ needsSetup.missingPrerequisites = <<>>
               /\ ~(/\ needsSetup.servicesToStart # <<>>
                    /\ needsSetup.missingPrerequisites # <<>>)

\* local mode, Supabase down and Docker down: Docker is the missing
\* prerequisite and the check went to the test prompt
C21_Witness ==
    /\ NeedsKnown
    /\ IsLocalConfig(call.config)
    /\ ~call.supabaseRunning
    /\ ~call.dockerRunning
    /\ call.needsSetup.missingPrerequisites = <<"Docker Desktop">>
    /\ step = "askTest"

(***************************************************************************)
(* Properties of setupProject                                              *)
(***************************************************************************)
Happened(event) == \E i \in 1..Len(effects) : effects[i] = event

IsPrefix(s, t) == Len(s) <= Len(t) /\ s = SubSeq(t, 1, Len(s))

SetupSteps ==
    {"checkPrerequisites", "pnpm install", "setupLocalSupabase", "createEnvFiles",
     "git init", "runFinalConnectivityCheck"}

IsSetupStep(event) == event \in SetupSteps

\* the steps setupProject has started so far, in order
StepsStarted == SelectSeq(effects, IsSetupStep)

StepOrder(config, gitAbsent) ==
    <<"checkPrerequisites", "pnpm install">>
    \o (IF config.db = "" THEN <<"setupLocalSupabase">> ELSE <<>>)
    \o <<"createEnvFiles">>
    \o (IF gitAbsent THEN <<"git init">> ELSE <<>>)
    \o <<"runFinalConnectivityCheck">>

InSetup == call.name \in {"setupProject", "runFinalConnectivityCheck"}

SetupOver == InSetup /\ step = "done"

SetupThrew == SetupOver /\ returned = <<"threw">>

\* C22: setupProject runs prerequisite check, pnpm install, local Supabase
\* setup (when the database is local), createEnvFiles, git init (only when
\* .git is absent) and the final connectivity check in this order, each
\* after the one before has completed.  A missing Docker or Supabase CLI
\* only warns: nothing but a failed "pnpm install" or "git init" stops
\* setupProject before the final check.
C22_FixedOrderWarningsOnly ==
    InSetup
        => /\ \E gitAbsent \in BOOLEAN :
                 IsPrefix(StepsStarted, StepOrder(call.config, gitAbsent))
           /\ Happened("git init") <=> Happened("pathExists(.git)=no")
           /\ SetupThrew => effects[Len(effects)] \in {"pnpm install", "git init"}
           /\ (SetupOver /\ ~SetupThrew)
                 => \E gitAbsent \in BOOLEAN :
                       /\ gitAbsent <=> Happened("pathExists(.git)=no")
                       /\ StepsStarted = StepOrder(call.config, gitAbsent)

\* Docker and the Supabase CLI are missing, and the install, the env file,
\* git init, the final check and the tests still ran
C22_Witness ==
    /\ SetupOver
    /\ ~SetupThrew
    /\ Happened("isDockerRunning=no")
    /\ Happened("isSupabaseCliInstalled=no")
    /\ StepsStarted = <<"checkPrerequisites", "pnpm install", "setupLocalSupabase",
                        "createEnvFiles", "git init", "runFinalConnectivityCheck">>
    /\ Happened("testConnectivity")

\* startRequiredServices ran "npx supabase start": its own isSupabaseRunning
\* answered no
StartedByFinalCheck ==
    /\ Happened("startRequiredServices")
    /\ lastOp.inp.name = "startRequiredServices"
    /\ ~lastOp.inp.running

LocalSupabaseCommandRan ==
    \/ Happened("npx supabase init")
    \/ Happened("npx supabase start")
    \/ StartedByFinalCheck

MaxOf(a, b) == IF a >= b THEN a ELSE b

\* the number a string of decimal digits denotes, read from the left
RECURSIVE DecimalFrom(_, _, _)
DecimalFrom(digits, i, sofar) ==
    IF i > Len(digits) THEN sofar
    ELSE DecimalFrom(digits, i + 1, sofar * 10 + digits[i])

Numbers(version) == [i \in 1..Len(version) |-> DecimalFrom(version[i], 1, 0)]

\* version a is at least version b: at the first place where they differ,
\* missing components counting as 0, a has the greater number
VersionAtLeast(a, b) ==
    \A i \in 1..MaxOf(Len(a), Len(b)) :
       (\A j \in 1..(i - 1) : Component(a, j) = Component(b, j))
          => Component(a, i) >= Component(b, i)

\* C24: compareVersions(A, B) is true iff A is at least B when the dotted
\* versions are compared number by number from the left, missing trailing
\* components counting as 0 and the first unequal component deciding:
\* ('8.0','8.0.0') true, ('7.9.9','8.0.0') false, ('10.0.0','8.0.0') true.
\* checkNodeVersion succeeds iff the Node version is at least 20.0.0 and
\* checkPnpm meets the requirement iff the pnpm version is at least 8.0.0.
C24_CompareVersionsIsNumericOrder ==
    /\ Called("compareVersions")
          => LET a == call.version
                 b == call.minVersion
             IN  /\ returned[1].value <=> VersionAtLeast(Numbers(a), Numbers(b))
                 /\ (a = <<<<8>>, <<0>>>> /\ b = <<<<8>>, <<0>>, <<0>>>>)
                       => returned[1].value
                 /\ (a = <<<<7>>, <<9>>, <<9>>>> /\ b = <<<<8>>, <<0>>, <<0>>>>)
                       => ~returned[1].value
                 /\ (a = <<<<1, 0>>, <<0>>, <<0>>>> /\ b = <<<<8>>, <<0>>, <<0>>>>)
                       => returned[1].value
    /\ (Called("checkNodeVersion") /\ call.version # Null)
          => (returned[1].value.success
                 <=> VersionAtLeast(Numbers(call.version), <<20, 0, 0>>))
    /\ (Called("checkPnpm") /\ call.version # Null)
          => (returned[1].value.meetsRequirement
                 <=> VersionAtLeast(Numbers(call.version), <<8, 0, 0>>))

\* '10.0.0' against '8.0.0': greater as numbers, smaller as text
C24_Witness ==
    /\ Called("compareVersions")
    /\ call.version = <<<<1, 0>>, <<0>>, <<0>>>>
    /\ call.minVersion = <<<<8>>, <<0>>, <<0>>>>
    /\ returned = <<Returns(TRUE)>>

ProbeNames ==
    {"isDockerRunning", "isSupabaseCliInstalled", "isSupabaseRunning",
     "checkNodeVersion", "checkPnpm", "checkLocalDependencies"}

ProbeDone == call.name \in ProbeNames /\ step = "done"

\* what every probe but checkLocalDependencies does when it cannot tell
OtherProbesNotSatisfied ==
    /\ ProbeDone => ~returned[1].threw
    /\ (Called("isDockerRunning") /\ call.command.throws) => ~returned[1].value
    /\ (Called("isSupabaseCliInstalled") /\ call.command.throws)
          => ~returned[1].value
    /\ (Called("isSupabaseRunning") /\ call.status.fails) => ~returned[1].value
    /\ (Called("checkNodeVersion") /\ call.version = Null)
          => ~returned[1].value.success
    /\ (Called("checkPnpm") /\ call.version = Null)
          => /\ ~returned[1].value.installed
             /\ ~returned[1].value.meetsRequirement

UnknownContext == ~hasPackageJson /\ ~isNpxTempDir

\* C25: no probe lets an exception out, and a probe that cannot determine
\* its answer reports "not satisfied": a failing command gives false / not
\* installed, an undeterminable Node version gives failure, and
\* checkLocalDependencies where there is no package.json and no npx or temp
\* directory reports the dependencies as not installed.
C25_ProbesReportNotSatisfied ==
    /\ OtherProbesNotSatisfied
    /\ (Called("checkLocalDependencies") /\ UnknownContext)
          => ~returned[1].value.installed

\* C25 as amended: as above for the other probes; checkLocalDependencies
\* reports the dependencies as installed, with nothing missing, in an npx or
\* temp directory and where there is no package.json, and reports them as
\* not installed only next to a package.json with node_modules or one of the
\* required packages absent.
C25_ProbesNotSatisfiedButUnknownContext ==
    /\ OtherProbesNotSatisfied
    /\ Called("checkLocalDependencies")
          => LET answer == returned[1].value
             IN  /\ (UnknownContext \/ isNpxTempDir)
                       => (answer.installed /\ answer.missing = {})
                 /\ ~answer.installed
                       <=> /\ ~isNpxTempDir
                           /\ hasPackageJson
                           /\ (~hasNodeModules \/ requiredDeps \ installedDeps # {})
                 /\ (~isNpxTempDir /\ hasPackageJson /\ ~hasNodeModules)
                       => answer.missing = requiredDeps

\* no package.json, no npx directory, no node_modules: reported as installed
C25_Witness ==
    /\ Called("checkLocalDependencies")
    /\ UnknownContext
    /\ ~hasNodeModules
    /\ returned = <<Returns([installed |-> TRUE, missing |-> {}])>>

\* C26: in setupProject, "npx supabase start" is run only after
\* isDockerRunning has answered yes earlier in the same invocation and after
\* an isSupabaseRunning check on that path has answered no, in
\* setupLocalSupabase as in startRequiredServices; in startRequiredServices
\* also only after the user agreed in the final connectivity check.
C26_StartOnlyAfterDockerAndNotRunning ==
    InSetup
        => /\ \A i \in At("npx supabase start") :
                 \E s \in At("setupLocalSupabase") :
                    /\ s < i
                    /\ \E j \in At("isDockerRunning=yes") : s < j /\ j < i
                    /\ \E k \in At("isSupabaseRunning=no") : s < k /\ k < i
           /\ StartedByFinalCheck
                 => /\ call.dockerRunning
                    /\ ~call.supabaseRunning
                    /\ \E c \in At("checkWhatNeedsSetup"), y \in At("shouldStart=yes"),
                          r \in At("startRequiredServices") : c < y /\ y < r

\* Supabase was started by setupLocalSupabase and, having gone down again,
\* by startRequiredServices after the user agreed
C26_Witness ==
    /\ SetupOver
    /\ Happened("npx supabase start")
    /\ StartedByFinalCheck
    /\ Happened("shouldStart=yes")

(***************************************************************************)
(* Properties of repeated promotion                                        *)
(***************************************************************************)
\* the last operation was a connectAuth or connectDatabase that wrote the
\* file, and so was, with the same values, the one before it
PromotedTwice ==
    /\ Ran({"connectAuth", "connectDatabase"})
    /\ repeated
    /\ ConnectProceeds(lastOp.inp.isConnected, lastOp.inp.continue)

\* three blank lines in a row: four line terminators in a row, or three at
\* the start of the text
HasThreeBlankLines(content) ==
    \/ OccursAt(content, <<NL, NL, NL>>, 1)
    \/ \E i \in 1..Len(content) : OccursAt(content, <<NL, NL, NL, NL>>, i)

\* C27: connectAuth and connectDatabase are idempotent on .env.local: the
\* second of two successive applications with the same values leaves the
\* content as the first left it, the result has no run of three or more
\* blank lines, and the file does not grow.
C27_PromoteIdempotent ==
    PromotedTwice
        => /\ envFile = prevFile
           /\ ~HasThreeBlankLines(envFile.content)
           /\ Len(envFile.content) <= Len(prevFile.content)

(***************************************************************************)
(* Properties of the frame of connectDatabase and connectAuth              *)
(***************************************************************************)
IsDatabaseLine(line) ==
    \/ IsActive(line, KeyDb)
    \/ StartsWith(line, LocalDbComment)
    \/ StartsWith(line, ProdDbComment)

IsAuthLine(line) ==
    \/ IsActive(line, KeyUrl)
    \/ IsActive(line, KeyAnon)
    \/ StartsWith(line, LocalAuthComment)
    \/ StartsWith(line, ProdAuthComment)

IsOtherThanDatabase(line) == line # <<>> /\ ~IsDatabaseLine(line)

IsOtherThanAuth(line) == line # <<>> /\ ~IsAuthLine(line)

Wrote(name) ==
    /\ Ran({name})
    /\ ConnectProceeds(lastOp.inp.isConnected, lastOp.inp.continue)

\* C28: connectDatabase changes only the DATABASE_URL assignment and the
\* database section comment: every other non-blank line of .env.local, the
\* auth assignments, the "# Local Supabase Auth" comment, NEXT_PUBLIC_SITE_URL
\* and unrelated lines among them, is there afterwards with the same content
\* and in the same order.  connectAuth likewise leaves the DATABASE_URL
\* assignment and the database section comment as they were.
C28_ConnectFrame ==
    /\ Wrote("connectDatabase")
          => SelectSeq(SplitLines(ContentOf(envFile)), IsOtherThanDatabase)
             = SelectSeq(SplitLines(ContentOf(prevFile)), IsOtherThanDatabase)
    /\ Wrote("connectAuth")
          => SelectSeq(SplitLines(ContentOf(envFile)), IsOtherThanAuth)
             = SelectSeq(SplitLines(ContentOf(prevFile)), IsOtherThanAuth)

(***************************************************************************)
(* Properties of the final check against the env file                      *)
(***************************************************************************)
\* C29: whenever checkWhatNeedsSetup returns nothing to start, nothing to
\* configure and no missing prerequisite, so that the tests run with no
\* prompt, each of DATABASE_URL, NEXT_PUBLIC_SUPABASE_URL and
\* NEXT_PUBLIC_SUPABASE_ANON_KEY has an active assignment in .env.local
\* whose value isEnvValueConfigured accepts, for every configuration and
\* every file createEnvFiles can have left.
C29_NoIssuesMeansConfigured ==
    (NeedsKnown /\ ~hasIssues(call.needsSetup))
        => \A key \in {KeyDb, KeyUrl, KeyAnon} :
              SetupHasValue(ContentOrEmpty(envFile), key)

(***************************************************************************)
(* Properties of the cached database handle                                *)
(***************************************************************************)
NoCache == [client |-> Null, db |-> Null]

Got(e) == e.op = "getDatabase" /\ ~e.returned.threw

IsClose(e) == e.op \in {"closeDatabase", "closeDatabase resumed"}

====
